---- MODULE Spec2Model ----
(***************************************************************************)
(* A model of the regulation-check core: the Label Canonicalizer, the      *)
(* furnishing Aggregator with its session cache, and the Spatial Assigner. *)
(*                                                                         *)
(* Strings are sequences of one-character strings.  Words are abbreviated  *)
(* to one letter: "s c" stands for "student chair", "l c" for "laboratory  *)
(* chair", "m r c" for "meeting room chair", "k" for "classroom"; "S", "C", *)
(* ... are the same letters in upper case and "1" is a decimal digit.      *)
(***************************************************************************)
EXTENDS Integers, Sequences, FiniteSets, TLC

VARIABLES
    pc,             \* position of the run: "input", "done", ...
    label,          \* Label Canonicalizer: the raw label
    key,            \* canonicalize(label) of area_per_capita_checker.py
    yard_key,       \* canonicalize(label) of area_per_capita_checker2.py
    edit,           \* the last edit applied to the label
    rooms,          \* rooms dict of collect_rooms, in insertion order
    chairs,         \* chairs list of collect_chairs
    ifc,            \* the parsed model handed to the checks
    furn_map,       \* the furnishing aggregate last built
    built_by,       \* which copy of the aggregate builder built furn_map
    session_state,  \* st.session_state: the cached aggregates
    result          \* the record emitted by the last check

vars == <<pc, label, key, yard_key, edit, rooms, chairs, ifc, furn_map,
          built_by, session_state, result>>

\* ------------------------------------------------------------------ bounds
MaxLen == 5

\* ----------------------------------------------------------------- strings
IsSpace(c) == c \in {" ", "\t"}

IsDigit(c) == c \in {"1"}

\* str.lower() on one character
LowerChar(c) ==
    CASE c = "S" -> "s"
      [] c = "C" -> "c"
      [] c = "L" -> "l"
      [] c = "M" -> "m"
      [] c = "R" -> "r"
      [] c = "K" -> "k"
      [] c = "W" -> "w"
      [] c = "D" -> "d"
      [] OTHER -> c

lower(s) == [i \in 1..Len(s) |-> LowerChar(s[i])]

RECURSIVE LStrip(_)
LStrip(s) ==
    IF s # <<>> /\ IsSpace(Head(s)) THEN LStrip(Tail(s)) ELSE s

RECURSIVE RStrip(_)
RStrip(s) ==
    IF s # <<>> /\ IsSpace(s[Len(s)]) THEN RStrip(SubSeq(s, 1, Len(s) - 1)) ELSE s

\* str.strip()
strip(s) == RStrip(LStrip(s))

\* index of the last character of the maximal run of non-space characters
\* that starts at i (i - 1 when s[i] is a space or past the end)
RECURSIVE WordEnd(_, _)
WordEnd(s, i) ==
    IF i <= Len(s) /\ ~IsSpace(s[i]) THEN WordEnd(s, i + 1) ELSE i - 1

\* str.split() with no argument: the maximal runs of non-space characters
RECURSIVE SplitFrom(_, _)
SplitFrom(s, i) ==
    IF i > Len(s) THEN <<>>
    ELSE IF IsSpace(s[i]) THEN SplitFrom(s, i + 1)
    ELSE LET e == WordEnd(s, i)
         IN  <<SubSeq(s, i, e)>> \o SplitFrom(s, e + 1)

split(s) == SplitFrom(s, 1)

\* " ".join(tokens)
RECURSIVE join(_)
join(tokens) ==
    IF tokens = <<>> THEN <<>>
    ELSE IF Len(tokens) = 1 THEN tokens[1]
    ELSE tokens[1] \o <<" ">> \o join(Tail(tokens))

\* ------------------------------------------------- NUM_TOKEN_RE and its sub
\* index of the last digit of the maximal digit run starting at i (i - 1: none)
RECURSIVE DigitsEnd(_, _)
DigitsEnd(s, i) ==
    IF i <= Len(s) /\ IsDigit(s[i]) THEN DigitsEnd(s, i + 1) ELSE i - 1

\* (?:#?\d+)(?=\s|$) tried at j: the index of the last digit, or 0 (no match).
\* \d+ is greedy; giving a digit back leaves a digit ahead, which the
\* lookahead refuses, and dropping the "#" leaves "#" where a digit is needed.
TokenEnd_without_hash(s, j) ==
    LET d == DigitsEnd(s, j)
    IN  IF d >= j /\ (d = Len(s) \/ IsSpace(s[d + 1])) THEN d ELSE 0

TokenEnd(s, j) ==
    LET h == IF j <= Len(s) /\ s[j] = "#" THEN j + 1 ELSE j
        d == DigitsEnd(s, h)
    IN  IF d >= h /\ (d = Len(s) \/ IsSpace(s[d + 1])) THEN d ELSE 0

\* NUM_TOKEN_RE matched at i: (?:^|\s) takes "^" first (only at the start of
\* the string), then one space character.  The index of the last character
\* of the match, or 0.
MatchEnd_consumes_delimiter(s, i) ==
    LET viaStart == IF i = 1 THEN TokenEnd(s, 1) ELSE 0
        viaSpace == IF IsSpace(s[i]) THEN TokenEnd(s, i + 1) ELSE 0
        e == IF viaStart > 0 THEN viaStart ELSE viaSpace
    IN  IF e > 0 /\ e < Len(s) THEN e + 1 ELSE e

MatchEnd(s, i) ==
    LET viaStart == IF i = 1 THEN TokenEnd(s, 1) ELSE 0
        viaSpace == IF IsSpace(s[i]) THEN TokenEnd(s, i + 1) ELSE 0
    IN  IF viaStart > 0 THEN viaStart ELSE viaSpace

\* NUM_TOKEN_RE.sub(" ", s): leftmost non-overlapping matches, each replaced
\* by one space; the search resumes right after the match
RECURSIVE SubFrom(_, _)
SubFrom(s, i) ==
    IF i > Len(s) THEN <<>>
    ELSE LET e == MatchEnd(s, i)
         IN  IF e > 0 THEN <<" ">> \o SubFrom(s, e + 1)
             ELSE <<s[i]>> \o SubFrom(s, i + 1)

NumTokenSub(s) == SubFrom(s, 1)

strip_numeric_tokens(s) ==
    LET s1 == join(split(strip(s)))
        s2 == NumTokenSub(s1)
    IN  join(split(s2))

\* area_per_capita_checker.py, meeting_room_checker.py, praying_room_checker.py
canonicalize(lbl) ==
    IF lbl = <<>> THEN <<>>
    ELSE lower(strip_numeric_tokens(join(split(strip(lbl)))))

\* area_per_capita_checker2.py
yard_canonicalize(lbl) ==
    IF lbl = <<>> THEN <<>> ELSE strip(lower(strip_numeric_tokens(lbl)))

\* ------------------------------------------------------------ idle values
IdleCanon == label = <<>> /\ key = <<>> /\ yard_key = <<>> /\ edit = "none"

IdleAssign == rooms = <<>> /\ chairs = <<>>

IdleAgg == furn_map = <<>> /\ built_by = "none"

IdleSession == session_state = <<>> /\ result = "none"

IdleIfc == ifc = <<>>

\* ------------------------------------------------------ Label Canonicalizer
CanonChars == {"s", "S", "1", "#", " "}

StringsUpTo(n) == UNION {[1..m -> CanonChars] : m \in 0..n}

NumericTokens == {<<"1">>, <<"#", "1">>, <<"1", "1">>}

InitCanon ==
    /\ pc = "input"
    /\ label \in StringsUpTo(MaxLen)
    /\ key = <<>> /\ yard_key = <<>> /\ edit = "none"
    /\ IdleAssign /\ IdleAgg /\ IdleSession /\ IdleIfc

othersCanon == <<rooms, chairs, ifc, furn_map, built_by, session_state, result>>

\* the label is canonicalized by both copies of canonicalize
Recanonicalize(new, how) ==
    /\ Len(new) <= MaxLen
    /\ label' = new
    /\ key' = canonicalize(new)
    /\ yard_key' = yard_canonicalize(new)
    /\ edit' = how
    /\ pc' = "done"
    /\ UNCHANGED othersCanon

Canonicalize ==
    /\ pc = "input"
    /\ Recanonicalize(label, "none")

\* s[i] is a whitespace character (FALSE outside the string)
SpaceAt(s, i) == IF i \in 1..Len(s) THEN IsSpace(s[i]) ELSE FALSE

\* a position between two characters that does not lie inside a word
AtWordBoundary(s, i) ==
    IF i = 0 \/ i = Len(s) THEN TRUE ELSE SpaceAt(s, i) \/ SpaceAt(s, i + 1)

InsertAt(s, i, t) == SubSeq(s, 1, i) \o t \o SubSeq(s, i + 1, Len(s))

\* t, placed at position i of s, is delimited by whitespace or the ends
Delimited(s, i, pre, post) ==
    /\ IF i = 0 \/ pre # <<>> THEN TRUE ELSE SpaceAt(s, i)
    /\ IF i = Len(s) \/ post # <<>> THEN TRUE ELSE SpaceAt(s, i + 1)

\* a standalone numeric token is inserted, delimited by whitespace
InsertNumericToken ==
    /\ pc = "done"
    /\ \E i \in 0..Len(label), tok \in NumericTokens,
          pre \in {<<>>, <<" ">>}, post \in {<<>>, <<" ">>} :
          /\ AtWordBoundary(label, i)
          /\ Delimited(label, i, pre, post)
          /\ Recanonicalize(InsertAt(label, i, pre \o tok \o post), "insert")

\* t is an optional "#" followed by one or more digits
IsNumericToken(t) ==
    LET d == IF t # <<>> /\ t[1] = "#" THEN Tail(t) ELSE t
    IN  d # <<>> /\ \A i \in 1..Len(d) : IsDigit(d[i])

\* a standalone numeric token is removed; the whitespace around it stays
RemoveNumericToken ==
    /\ pc = "done"
    /\ \E a \in 1..Len(label), b \in 1..Len(label) :
          /\ a <= b
          /\ IF a = 1 THEN TRUE ELSE SpaceAt(label, a - 1)
          /\ IF b = Len(label) THEN TRUE ELSE SpaceAt(label, b + 1)
          /\ IsNumericToken(SubSeq(label, a, b))
          /\ Recanonicalize(SubSeq(label, 1, a - 1)
                            \o SubSeq(label, b + 1, Len(label)), "remove")

SwapCase(c) == IF c = "s" THEN "S" ELSE IF c = "S" THEN "s" ELSE c

\* the case of one letter changes
ChangeCase ==
    /\ pc = "done"
    /\ \E i \in 1..Len(label) :
          /\ SwapCase(label[i]) # label[i]
          /\ Recanonicalize([label EXCEPT ![i] = SwapCase(label[i])], "case")

\* a whitespace run between two tokens grows by one character
WidenWhitespace ==
    /\ pc = "done"
    /\ \E i \in 1..Len(label), w \in {" ", "\t"} :
          /\ SpaceAt(label, i)
          /\ Recanonicalize(InsertAt(label, i, <<w>>), "widen")

\* a whitespace run of two or more characters shrinks by one character
NarrowWhitespace ==
    /\ pc = "done"
    /\ \E i \in 1..Len(label) :
          /\ SpaceAt(label, i) /\ SpaceAt(label, i + 1)
          /\ Recanonicalize(SubSeq(label, 1, i - 1)
                            \o SubSeq(label, i + 1, Len(label)), "narrow")

NextCanon ==
    \/ Canonicalize
    \/ InsertNumericToken
    \/ RemoveNumericToken
    \/ ChangeCase
    \/ WidenWhitespace
    \/ NarrowWhitespace

SpecCanon == InitCanon /\ [][NextCanon]_vars

\* --------------------------------------------------------- Spatial Assigner
\* Plan coordinates are in half metres, heights in metres.  A footprint is an
\* axis-parallel rectangle [x0, x1] x [y0, y1]: the union of two triangles.
MaxRooms == 2

MaxChairs == 2

DEFAULT_Z_TOL_M == 1

\* "classroom", "laboratory", "room"; "student chair", "laboratory chair"
classroom == <<"k">>

laboratory == <<"l">>

room == <<"r">>

student_chair == <<"s", " ", "c">>

laboratory_chair == <<"l", " ", "c">>

UnitSquare == [x0 |-> 0, x1 |-> 2, y0 |-> 0, y1 |-> 2]

DoubleBay == [x0 |-> 0, x1 |-> 4, y0 |-> 0, y1 |-> 2]

Footprints == {UnitSquare, DoubleBay}

RoomElevations == {0, 3}

RoomLongNames == {<<"K">>, <<"L">>}

abs(n) == IF n < 0 THEN -n ELSE n

\* hay[i..] starts with needle
StartsAt(hay, needle, i) ==
    /\ i + Len(needle) - 1 <= Len(hay)
    /\ \A k \in 1..Len(needle) : hay[i + k - 1] = needle[k]

\* Python's "needle in hay" on strings
Contains(hay, needle) == \E i \in 1..(Len(hay) + 1) : StartsAt(hay, needle, i)

_norm(s) == strip(s)

_lower(s) == lower(_norm(s))

\* Polygon.contains(Point): the point lies in the interior
contains(fp, x, y) == fp.x0 < x /\ x < fp.x1 /\ fp.y0 < y /\ y < fp.y1

\* Polygon.touches(Point): the point lies on the boundary
touches(fp, x, y) ==
    /\ fp.x0 <= x /\ x <= fp.x1 /\ fp.y0 <= y /\ y <= fp.y1
    /\ ~contains(fp, x, y)

covers_interior_only(fp, x, y) == contains(fp, x, y)

\* r.footprint.contains(p) or r.footprint.touches(p)
covers(fp, x, y) == contains(fp, x, y) \/ touches(fp, x, y)

out_of_band_strict(ch, r, z_tol_m) == abs(ch.z - r.elev) >= z_tol_m

out_of_band_never(ch, r, z_tol_m) == FALSE

\* abs(ch.z - r.elev) > z_tol_m: the room is skipped
out_of_band(ch, r, z_tol_m) == abs(ch.z - r.elev) > z_tol_m

chair_matches(ch, query) ==
    LET q == _lower(query)
    IN  \E c \in {ch.name, ch.family, ch.type_name} :
            c # <<>> /\ Contains(_lower(c), q)

is_classroom(r) ==
    _lower(r.longname) = classroom \/ _lower(r.name) = classroom

detect_room_type(r) ==
    LET ln == _lower(r.longname)
        nm == _lower(r.name)
    IN  IF ln = classroom \/ nm = classroom THEN "classroom"
        ELSE IF ln = laboratory \/ nm = laboratory THEN "laboratory"
        ELSE IF ln = room \/ nm = room THEN "room"
        ELSE "None"

\* rooms.items(): the keys of the dict in insertion order
Keys(R) == [i \in 1..Len(R) |-> i]

\* the inner loop of assign_chairs_to_rooms: the key of the first room, from
\* position k of the scan, that takes the chair (0: none)
RECURSIVE ScanRooms(_, _, _, _, _)
ScanRooms(R, sel, k, ch, z_tol_m) ==
    IF k > Len(sel) THEN 0
    ELSE IF out_of_band(ch, R[sel[k]], z_tol_m)
         THEN ScanRooms(R, sel, k + 1, ch, z_tol_m)
    ELSE IF covers(R[sel[k]].footprint, ch.x, ch.y) THEN sel[k]
    ELSE ScanRooms(R, sel, k + 1, ch, z_tol_m)

\* the outer loop of assign_chairs_to_rooms, from chair j on
RECURSIVE AssignFrom(_, _, _, _, _)
AssignFrom(R, sel, chs, j, z_tol_m) ==
    IF j > Len(chs) THEN R
    ELSE LET i == ScanRooms(R, sel, 1, chs[j], z_tol_m)
             R1 == IF i = 0 THEN R
                   ELSE [R EXCEPT ![i].chairs = Append(@, chs[j].ifc_id)]
         IN  AssignFrom(R1, sel, chs, j + 1, z_tol_m)

SelKeys(sel) == {sel[k] : k \in 1..Len(sel)}

\* the second loop alone, the lists left as they are
assign_without_clearing(R, sel, chs, z_tol_m) == AssignFrom(R, sel, chs, 1, z_tol_m)

\* assign_chairs_to_rooms(rooms, chairs, z_tol_m) on the rooms with keys sel:
\* the RoomRec objects are shared with the full rooms dict R
assign_chairs_to_rooms(R, sel, chs, z_tol_m) ==
    LET cleared == [i \in 1..Len(R) |->
                       IF i \in SelKeys(sel) THEN [R[i] EXCEPT !.chairs = <<>>]
                       ELSE R[i]]
    IN  AssignFrom(cleared, sel, chs, 1, z_tol_m)

RoomRecs ==
    [longname : RoomLongNames, name : {<<"1">>}, elev : RoomElevations,
     footprint : Footprints]

Chair(nm, fam, pt) ==
    [name |-> nm, family |-> fam, type_name |-> <<>>, xy |-> pt, z |-> 1]

\* furnishings 1 m above the lower floor: student chairs inside the unit
\* square, on its wall and beyond it; a chair whose object type also names a
\* laboratory chair; a laboratory chair
ChairRecs ==
    {Chair(<<"S", " ", "c">>, <<>>, <<1, 1>>),
     Chair(<<"S", " ", "c">>, <<>>, <<2, 1>>),
     Chair(<<"S", " ", "c">>, <<>>, <<3, 1>>),
     Chair(<<"S", " ", "c">>, <<"L", " ", "c">>, <<1, 1>>),
     Chair(<<"S", " ", "c">>, <<"L", " ", "c">>, <<2, 1>>),
     Chair(<<"L", " ", "c">>, <<>>, <<1, 1>>)}

\* collect_rooms: one RoomRec per space, keyed by the entity id, chairs = []
RoomDicts ==
    UNION {[1..n -> RoomRecs] : n \in 0..MaxRooms}

\* collect_chairs: one ChairRec per furnishing with a world point
ChairLists ==
    UNION {[1..n -> ChairRecs] : n \in 0..MaxChairs}

InitAssign ==
    /\ pc = "collected"
    /\ \E rs \in RoomDicts :
          rooms = [i \in 1..Len(rs) |->
                      [ifc_id |-> i, longname |-> rs[i].longname,
                       name |-> rs[i].name, elev |-> rs[i].elev,
                       footprint |-> rs[i].footprint, chairs |-> <<>>]]
    /\ \E cs \in ChairLists :
          chairs = [j \in 1..Len(cs) |->
                       [ifc_id |-> j, name |-> cs[j].name,
                        family |-> cs[j].family, type_name |-> cs[j].type_name,
                        x |-> cs[j].xy[1], y |-> cs[j].xy[2], z |-> cs[j].z]]
    /\ IdleCanon /\ IdleAgg /\ IdleSession /\ IdleIfc

othersRooms ==
    <<label, key, yard_key, edit, ifc, furn_map, built_by, session_state>>

IsClassroomType(r) == detect_room_type(r) = "classroom"

IsLaboratoryType(r) == detect_room_type(r) = "laboratory"

IsRoomType(r) == detect_room_type(r) = "room"

MatchesStudentChair(ch) == chair_matches(ch, student_chair)

MatchesLaboratoryChair(ch) == chair_matches(ch, laboratory_chair)

\* classroom_checker.py: the rooms and chairs run_classroom_checker assigns
checker_classroom_rooms(R) == SelectSeq(Keys(R), LAMBDA i : is_classroom(R[i]))

\* ch2.py: the classroom rooms, and the laboratory rooms with their fallback
classroom_rooms(R) == SelectSeq(Keys(R), LAMBDA i : IsClassroomType(R[i]))

laboratory_rooms(R) ==
    IF SelectSeq(Keys(R), LAMBDA i : IsLaboratoryType(R[i])) # <<>>
    THEN SelectSeq(Keys(R), LAMBDA i : IsLaboratoryType(R[i]))
    ELSE SelectSeq(Keys(R), LAMBDA i : IsRoomType(R[i]))

classroom_chairs(chs) == SelectSeq(chs, MatchesStudentChair)

laboratory_chairs(chs) == SelectSeq(chs, MatchesLaboratoryChair)

\* classroom_checker.py run_classroom_checker: filter, then one assignment pass
DEFAULT_MAX_CAPACITY == 24

\* the values of the "Student number" input used for max_cap (1..10000)
MaxCaps == {1, 2, DEFAULT_MAX_CAPACITY}

\* ord() of the characters of a room name
Ord(c) ==
    CASE c = " " -> 32
      [] c = "1" -> 49
      [] c = "K" -> 75
      [] c = "L" -> 76
      [] c = "R" -> 82
      [] c = "k" -> 107
      [] c = "l" -> 108
      [] c = "r" -> 114
      [] OTHER -> 63

\* a < b on str
str_lt(a, b) ==
    \E k \in 1..(Len(a) + 1) :
        /\ \A j \in 1..(k - 1) : j <= Len(b) /\ a[j] = b[j]
        /\ k <= Len(b)
        /\ IF k > Len(a) THEN TRUE ELSE Ord(a[k]) < Ord(b[k])

\* r.longname or r.name
room_name(r) == IF r.longname # <<>> THEN r.longname ELSE r.name

\* key=lambda r: (r.longname or r.name, r.ifc_id)
key_lt(r1, r2) ==
    \/ str_lt(room_name(r1), room_name(r2))
    \/ room_name(r1) = room_name(r2) /\ r1.ifc_id < r2.ifc_id

status_ok_below_cap(cnt, max_cap) == cnt < max_cap

\* status_ok = (cnt <= max_cap)
status_ok(cnt, max_cap) == cnt <= max_cap

\* render_results(title, rooms_filtered, max_cap, ...), which returns with no
\* record when rooms_filtered is empty: ordered holds the keys of the sorted
\* rooms, results[k] is the rec of ordered[k], good and bad hold
\* the positions in results of the recs appended to them
render_results(R, rooms_filtered, max_cap) ==
    LET ordered == SortSeq(rooms_filtered, LAMBDA i, j : key_lt(R[i], R[j]))
        results == [k \in 1..Len(ordered) |->
                       [room_name |-> room_name(R[ordered[k]]),
                        chair_count |-> Len(R[ordered[k]].chairs),
                        status |-> IF status_ok(Len(R[ordered[k]].chairs), max_cap)
                                   THEN "OK" ELSE "NOT OK"]]
        positions == [k \in 1..Len(ordered) |-> k]
    IN  [ordered |-> ordered,
         results |-> results,
         good |-> SelectSeq(positions, LAMBDA k : results[k].status = "OK"),
         bad |-> SelectSeq(positions, LAMBDA k : results[k].status # "OK")]

RunClassroomChecker ==
    /\ pc = "collected"
    /\ rooms' = assign_chairs_to_rooms(rooms, checker_classroom_rooms(rooms),
                                       classroom_chairs(chairs), DEFAULT_Z_TOL_M)
    /\ result' = [max_cap |-> DEFAULT_MAX_CAPACITY,
                  tabs |-> <<render_results(rooms', checker_classroom_rooms(rooms'),
                                            DEFAULT_MAX_CAPACITY)>>]
    /\ pc' = "classroom_checker_done"
    /\ UNCHANGED <<chairs, othersRooms>>

\* ch2.py: filter, then the classroom pass and the laboratory pass, then the
\* Classroom tab and the Laboratory tab
Ch2Run ==
    /\ pc = "collected"
    /\ rooms' =
          LET R1 == assign_chairs_to_rooms(rooms, classroom_rooms(rooms),
                                           classroom_chairs(chairs), DEFAULT_Z_TOL_M)
          IN  assign_chairs_to_rooms(R1, laboratory_rooms(R1),
                                     laboratory_chairs(chairs), DEFAULT_Z_TOL_M)
    /\ \E max_cap \in MaxCaps :
          result' = [max_cap |-> max_cap,
                     tabs |-> <<render_results(rooms', classroom_rooms(rooms'), max_cap),
                                render_results(rooms', laboratory_rooms(rooms'), max_cap)>>]
    /\ pc' = "ch2_done"
    /\ UNCHANGED <<chairs, othersRooms>>

\* the app of app_ch2_only.py, which calls run_classroom_checker
SpecClassroom == InitAssign /\ [][RunClassroomChecker]_vars

\* the app of ch2.py
SpecCh2 == InitAssign /\ [][Ch2Run]_vars

\* ---- what the claims say of an assignment pass, stated without the loops
ChairIds(r) == {r.chairs[k] : k \in 1..Len(r.chairs)}

InBand(r, ch) ==
    ch.z - r.elev <= DEFAULT_Z_TOL_M /\ r.elev - ch.z <= DEFAULT_Z_TOL_M

InsideOrOnBoundary(r, ch) ==
    /\ r.footprint.x0 <= ch.x /\ ch.x <= r.footprint.x1
    /\ r.footprint.y0 <= ch.y /\ ch.y <= r.footprint.y1

OnBoundary(r, ch) ==
    /\ InsideOrOnBoundary(r, ch)
    /\ ch.x \in {r.footprint.x0, r.footprint.x1}
       \/ ch.y \in {r.footprint.y0, r.footprint.y1}

Qualifies(r, ch) == InBand(r, ch) /\ InsideOrOnBoundary(r, ch)

\* the rooms and the chairs handed to the pass of run_classroom_checker
PassRooms == checker_classroom_rooms(rooms)

PassChairs == classroom_chairs(chairs)

\* how often chair id j occurs in the lists of all rooms
Occurrences(j) ==
    Cardinality({<<i, k>> \in (1..Len(rooms)) \X (1..Len(chairs)) :
                    k <= Len(rooms[i].chairs) /\ rooms[i].chairs[k] = j})

\* C1: after an evaluation run every furnishing id is in the assigned list of
\* at most one room, at most once.
C1_AtMostOneRoom ==
    pc \in {"ch2_done", "classroom_checker_done"} =>
        \A j \in 1..Len(chairs) : Occurrences(chairs[j].ifc_id) <= 1

\* C2: a pass assigns each furnishing to the first room of the scan order that
\* is within the tolerance and whose footprint holds the point, boundary
\* included, and to no room when there is none.
C2_FirstQualifyingRoom ==
    LET rs == PassRooms
        cs == PassChairs
        R(k) == rooms[rs[k]]
    IN
    pc = "classroom_checker_done" =>
        \A j \in 1..Len(cs), k \in 1..Len(rs) :
            (cs[j].ifc_id \in ChairIds(R(k)))
            <=> /\ Qualifies(R(k), cs[j])
                /\ \A k2 \in 1..(k - 1) :
                       ~Qualifies(R(k2), cs[j])

\* two rooms qualify for a chair and the first of the scan has it
C2_Witness ==
    LET rs == PassRooms
        cs == PassChairs
        R(k) == rooms[rs[k]]
    IN
    /\ pc = "classroom_checker_done"
    /\ Len(rs) = 2
    /\ \E j \in 1..Len(cs) :
          /\ Qualifies(R(1), cs[j])
          /\ Qualifies(R(2), cs[j])
          /\ cs[j].ifc_id \in ChairIds(R(1))
    /\ \E j \in 1..Len(cs) :
          \A i \in 1..Len(rooms) : cs[j].ifc_id \notin ChairIds(rooms[i])

\* C3: a furnishing on an edge or a vertex of a room's footprint, within the
\* tolerance of that room, is assigned to a room.
C3_BoundaryCounts ==
    LET rs == PassRooms
        cs == PassChairs
        R(k) == rooms[rs[k]]
    IN
    pc = "classroom_checker_done" =>
        \A j \in 1..Len(cs), k \in 1..Len(rs) :
            OnBoundary(R(k), cs[j])
            /\ InBand(R(k), cs[j])
            => \E i \in 1..Len(rooms) : cs[j].ifc_id \in ChairIds(rooms[i])

\* a chair on the wall of the only room that holds it is in that room's list
C3_Witness ==
    LET rs == PassRooms
        cs == PassChairs
        R(k) == rooms[rs[k]]
    IN
    /\ pc = "classroom_checker_done"
    /\ \E j \in 1..Len(cs), k \in 1..Len(rs) :
          /\ OnBoundary(R(k), cs[j])
          /\ InBand(R(k), cs[j])
          /\ cs[j].ifc_id \in ChairIds(R(k))
          /\ \A k2 \in 1..Len(rs) :
                k2 # k => ~Qualifies(R(k2), cs[j])

\* C4: of two rooms whose footprints both hold the point, one within the
\* tolerance and one not, the furnishing goes to the one within the tolerance
\* whichever is scanned first (no third room qualifying).
C4_InToleranceRoomWins ==
    LET rs == PassRooms
        cs == PassChairs
        R(k) == rooms[rs[k]]
    IN
    pc = "classroom_checker_done" =>
        \A j \in 1..Len(cs), k1 \in 1..Len(rs), k2 \in 1..Len(rs) :
            /\ k1 # k2
            /\ InsideOrOnBoundary(R(k1), cs[j])
            /\ InsideOrOnBoundary(R(k2), cs[j])
            /\ InBand(R(k1), cs[j])
            /\ ~InBand(R(k2), cs[j])
            /\ \A k3 \in 1..Len(rs) :
                  k3 # k1 => ~Qualifies(R(k3), cs[j])
            => /\ cs[j].ifc_id \in ChairIds(R(k1))
               /\ cs[j].ifc_id \notin ChairIds(R(k2))

\* the room out of tolerance is scanned first and the chair is in the other
C4_Witness ==
    LET rs == PassRooms
        cs == PassChairs
        R(k) == rooms[rs[k]]
    IN
    /\ pc = "classroom_checker_done"
    /\ \E j \in 1..Len(cs), k1 \in 1..Len(rs), k2 \in 1..Len(rs) :
          /\ k2 < k1
          /\ InsideOrOnBoundary(R(k1), cs[j])
          /\ InsideOrOnBoundary(R(k2), cs[j])
          /\ InBand(R(k1), cs[j])
          /\ ~InBand(R(k2), cs[j])
          /\ cs[j].ifc_id \in ChairIds(R(k1))

\* C6: canonicalize is idempotent, in both copies: canonicalizing a canonical
\* label gives the same label back.
C6_Idempotent ==
    pc = "done" =>
        /\ canonicalize(key) = key
        /\ yard_canonicalize(yard_key) = yard_key

\* a label with a numeric token and an upper-case letter has been canonicalized
C6_Witness ==
    /\ pc = "done" /\ edit = "none"
    /\ key # <<>>
    /\ Len(split(key)) < Len(split(label))
    /\ \E i \in 1..Len(label) : label[i] = "S"

Classroom12 == <<"C", " ", "1", "1">>

\* C7: inserting or removing a standalone numeric token, changing the case of a
\* letter and changing the amount of whitespace between tokens leave the
\* canonical label unchanged; "Classroom 12" and "classroom" canonicalize alike.
C7_EditsKeepCanonical ==
    /\ canonicalize(Classroom12) = canonicalize(<<"c">>)
    /\ [][pc = "done" => key' = key /\ yard_key' = yard_key]_vars

\* a numeric token has been inserted into a label of several tokens
C7_Witness ==
    /\ pc = "done" /\ edit = "insert"
    /\ key # <<>>
    /\ Len(split(label)) >= 3

\* ---------------------------------------------------------------------------
\* Furnishing aggregate: build_furn_map (area_per_capita_checker.py and
\* area_per_capita_checker2.py) and build_furniture_type_map
\* (meeting_room_checker.py, praying_room_checker.py, the same text).
\* A model file is the sequence of its furnishing entities in file order; a
\* dict is the sequence of its groups in insertion order.
\* ---------------------------------------------------------------------------
MaxFurn == 3

meeting_room_chair == <<"m", " ", "r", " ", "c">>

NoType == <<>>

TypedBy(nm) == <<[Name |-> nm, ElementType |-> <<>>, Tag |-> <<>>]>>

Furnishing(cls, nm, ot, ty) ==
    [is_a |-> cls, Name |-> nm, ObjectType |-> ot, types |-> ty, Tag |-> <<>>]

\* a student chair; the same as an IfcFurniture; one numbered "Student 1
\* chair"; one named "1"; one labelled by its type only; a meeting room chair
\* labelled by its object type, as an IfcFurniture; one without any label
FurnishingPool ==
    {Furnishing("IfcFurnishingElement", <<"S", " ", "c">>, <<>>, NoType),
     Furnishing("IfcFurniture", <<"S", " ", "c">>, <<>>, NoType),
     Furnishing("IfcFurnishingElement", <<"S", " ", "1", " ", "c">>, <<>>, NoType),
     Furnishing("IfcFurnishingElement", <<"1">>, <<>>, NoType),
     Furnishing("IfcFurnishingElement", <<>>, <<" ">>, TypedBy(<<"S", " ", "c">>)),
     Furnishing("IfcFurniture", <<" ">>, <<"M", " ", "r", " ", "c", " ">>, NoType),
     Furnishing("IfcFurnishingElement", <<>>, <<>>, NoType)}

\* ifc.by_type(t): the entities of class t and of its subclasses, in file
\* order. IfcFurniture is a subclass of IfcFurnishingElement; a schema without
\* IfcFurniture has no such entity and the RuntimeError it raises is caught,
\* which leaves the same labels as an empty answer.
by_type(f, t) ==
    SelectSeq(f, LAMBDA e :
        e.is_a = t \/ (t = "IfcFurnishingElement" /\ e.is_a = "IfcFurniture"))

\* the first value of vs that is not blank, stripped; "" when there is none
RECURSIVE FirstNonBlank(_, _)
FirstNonBlank(vs, i) ==
    IF i > Len(vs) THEN <<>>
    ELSE IF strip(vs[i]) # <<>> THEN strip(vs[i])
    ELSE FirstNonBlank(vs, i + 1)

\* the Name, ElementType and Tag of every type the element is defined by
RECURSIVE TypeAttrs(_, _)
TypeAttrs(ts, i) ==
    IF i > Len(ts) THEN <<>>
    ELSE <<ts[i].Name, ts[i].ElementType, ts[i].Tag>> \o TypeAttrs(ts, i + 1)

best_furnishing_label(e) ==
    LET own == FirstNonBlank(<<e.Name, e.ObjectType>>, 1)
        typ == FirstNonBlank(TypeAttrs(e.types, 1), 1)
    IN  IF own # <<>> THEN own
        ELSE IF typ # <<>> THEN typ
        ELSE strip(e.Tag)

\* area_per_capita_checker2.py, the nested best(elem)
best(e) == FirstNonBlank(<<e.Name, e.ObjectType>>, 1)

NonEmpty(l) == l # <<>>

LabelsOf(elems) ==
    SelectSeq([i \in 1..Len(elems) |-> best_furnishing_label(elems[i])], NonEmpty)

collect_furniture_instance_labels(f) ==
    LabelsOf(by_type(f, "IfcFurnishingElement")) \o LabelsOf(by_type(f, "IfcFurniture"))

\* the position of key k in the dict (0: absent)
IndexOfKey(mp, k) ==
    IF \E i \in 1..Len(mp) : mp[i].key = k
    THEN CHOOSE i \in 1..Len(mp) : mp[i].key = k
    ELSE 0

\* if key not in type_map: type_map[key] = {display, 0}; count += 1
CountOne(mp, k, disp) ==
    IF IndexOfKey(mp, k) = 0
    THEN Append(mp, [key |-> k, display |-> disp, count |-> 1])
    ELSE [mp EXCEPT ![IndexOfKey(mp, k)].count = @ + 1]

RECURSIVE TypeMapFrom(_, _, _)
TypeMapFrom(labels, i, type_map) ==
    IF i > Len(labels) THEN type_map
    ELSE LET k == canonicalize(labels[i])
         IN  IF k = <<>> THEN TypeMapFrom(labels, i + 1, type_map)
             ELSE TypeMapFrom(labels, i + 1,
                      CountOne(type_map, k, strip_numeric_tokens(labels[i])))

\* area_per_capita_checker.py
build_furn_map(f) == TypeMapFrom(collect_furniture_instance_labels(f), 1, <<>>)

\* meeting_room_checker.py, praying_room_checker.py
build_furniture_type_map(f) ==
    TypeMapFrom(collect_furniture_instance_labels(f), 1, <<>>)

\* area_per_capita_checker2.py: one loop per query, setdefault on the
\* canonical key with the label as display
RECURSIVE YardCountFrom(_, _, _)
YardCountFrom(elems, i, out) ==
    IF i > Len(elems) THEN out
    ELSE LET l == best(elems[i])
         IN  IF l = <<>> THEN YardCountFrom(elems, i + 1, out)
             ELSE YardCountFrom(elems, i + 1, CountOne(out, yard_canonicalize(l), l))

yard_build_furn_map(f) ==
    YardCountFrom(by_type(f, "IfcFurniture"), 1,
                  YardCountFrom(by_type(f, "IfcFurnishingElement"), 1, <<>>))

\* sum(v["count"] for v in map.values() if phrase in v["display"].lower())
RECURSIVE CountWhere(_, _, _)
CountWhere(mp, phrase, i) ==
    IF i > Len(mp) THEN 0
    ELSE (IF Contains(lower(mp[i].display), phrase) THEN mp[i].count ELSE 0)
         + CountWhere(mp, phrase, i + 1)

auto_students(mp) == CountWhere(mp, lower(student_chair), 1)

students(mp) == CountWhere(mp, student_chair, 1)

seats_total(mp) == CountWhere(mp, lower(meeting_room_chair), 1)

InitAgg ==
    /\ pc = "opened"
    /\ ifc \in UNION {[1..n -> FurnishingPool] : n \in 0..MaxFurn}
    /\ IdleAgg /\ IdleCanon /\ IdleAssign /\ IdleSession

othersAgg ==
    <<label, key, yard_key, edit, rooms, chairs, ifc, session_state, result>>

Built(mp, by) ==
    /\ pc = "opened"
    /\ furn_map' = mp
    /\ built_by' = by
    /\ pc' = "aggregated"
    /\ UNCHANGED othersAgg

BuildFurnMap == Built(build_furn_map(ifc), "area_per_capita_checker")

YardBuildFurnMap == Built(yard_build_furn_map(ifc), "area_per_capita_checker2")

BuildFurnitureTypeMap == Built(build_furniture_type_map(ifc), "meeting_room_checker")

NextAgg == BuildFurnMap \/ YardBuildFurnMap \/ BuildFurnitureTypeMap

SpecAgg == InitAgg /\ [][NextAgg]_vars

\* the canonical key the copy that built the map gives an entity
KeyBy(by, e) ==
    IF by = "area_per_capita_checker2" THEN yard_canonicalize(best(e))
    ELSE canonicalize(best_furnishing_label(e))

MapBy(by, f) ==
    IF by = "area_per_capita_checker2" THEN yard_build_furn_map(f)
    ELSE IF by = "area_per_capita_checker" THEN build_furn_map(f)
    ELSE build_furniture_type_map(f)

OccupantsBy(by, mp) ==
    IF by = "area_per_capita_checker2" THEN students(mp)
    ELSE IF by = "area_per_capita_checker" THEN auto_students(mp)
    ELSE seats_total(mp)

RECURSIVE TotalCount(_, _)
TotalCount(mp, i) ==
    IF i > Len(mp) THEN 0 ELSE mp[i].count + TotalCount(mp, i + 1)

\* C8: after the aggregate is built no group has the empty string as its key.
C8_NoEmptyKey ==
    pc = "aggregated" => \A i \in 1..Len(furn_map) : furn_map[i].key # <<>>

\* C9: every furnishing entity whose label has a non-empty canonical form
\* counts once, so the counts of all groups add up to the number of such
\* entities, IfcFurniture entities included.
C9_EachEntityCountsOnce ==
    pc = "aggregated" /\ built_by \in {"area_per_capita_checker", "meeting_room_checker"} =>
        TotalCount(furn_map, 1)
        = Cardinality({i \in 1..Len(ifc) : KeyBy(built_by, ifc[i]) # <<>>})

\* C10: the occupant count derived from the aggregate is the same for every
\* permutation of the model's furnishing entities.
C10_OrderIndependent ==
    pc = "aggregated" =>
        \A p \in Permutations(1..Len(ifc)) :
            OccupantsBy(built_by, MapBy(built_by, [i \in 1..Len(ifc) |-> ifc[p[i]]]))
            = OccupantsBy(built_by, furn_map)

\* ---------------------------------------------------------------------------
\* A session of the ch2.py app: every script run opens the file that is in the
\* uploader and renders the meeting room seats check on it; st.session_state
\* lives as long as the session.
\* ---------------------------------------------------------------------------
school_types == {"ebtedaei tak dore", "ebtedaei mix", "motevasete tak dore",
                 "motevasete mix", "ebtedaei and motevasete"}

required_min(sel_school) ==
    CASE sel_school = "ebtedaei tak dore" -> 72
      [] sel_school = "ebtedaei mix" -> 144
      [] sel_school = "motevasete tak dore" -> 108
      [] sel_school = "motevasete mix" -> 180
      [] sel_school = "ebtedaei and motevasete" -> 216

MaxUpload == 2

\* the files a user uploads: up to MaxUpload furnishings, each a meeting room
\* chair, a meeting room chair that is an IfcFurniture, or a student chair
UploadPool ==
    {Furnishing("IfcFurnishingElement", <<"M", " ", "r", " ", "c">>, <<>>, NoType),
     Furnishing("IfcFurniture", <<"M", " ", "r", " ", "c">>, <<>>, NoType),
     Furnishing("IfcFurnishingElement", <<"S", " ", "c">>, <<>>, NoType)}

Uploads == UNION {[1..n -> UploadPool] : n \in 0..MaxUpload}

InitSession ==
    /\ pc = "session"
    /\ IdleIfc /\ IdleSession /\ IdleAgg /\ IdleCanon /\ IdleAssign

othersSession ==
    <<label, key, yard_key, edit, rooms, chairs, furn_map, built_by>>

\* the record of the summary table for a furniture map and a school type
SeatsRecord(mp, sel_school) ==
    LET seats == seats_total(mp)
        req == required_min(sel_school)
    IN  [room_name |-> "meeting room", chair_name |-> "meeting room chair",
         school_type |-> sel_school, seats_found |-> seats, min_required |-> req,
         shortfall |-> IF seats = 0 THEN req
                       ELSE IF seats >= req THEN 0 ELSE req - seats,
         status |-> IF seats # 0 /\ seats >= req THEN "OK" ELSE "NOT_OK"]

\* st.session_state after "if key not in st.session_state: set it"
Cached(ss, k, v) == IF k \in DOMAIN ss THEN ss ELSE ss @@ (k :> v)

\* one script run of ch2.py with file up in the uploader and sel_school chosen
render_meeting_room_seats_check ==
    \E up \in Uploads, sel_school \in school_types :
        LET ss == Cached(session_state, "mr_furn_type_map", build_furniture_type_map(up))
        IN  /\ pc \in {"session", "rendered"}
            /\ ifc' = up
            /\ session_state' = ss
            /\ result' = SeatsRecord(ss["mr_furn_type_map"], sel_school)
            /\ pc' = "rendered"
            /\ UNCHANGED othersSession

SpecSession == InitSession /\ [][render_meeting_room_seats_check]_vars

\* what a first run in a fresh session produces for model f and school type s
FreshRun(f, s) == SeatsRecord(build_furniture_type_map(f), s)

\* C5: a run on a model with a school type produces the record that a first
\* run on that model with that school type in a fresh session produces,
\* whatever ran earlier in the session.
C5_RunIsFunctionOfItsModel ==
    pc = "rendered" => result = FreshRun(ifc, result.school_type)

\* ---------------------------------------------------------------------------
\* Room counts: wc_number_checker.py, staff_wc_checker.py and
\* disabled_wc_checker.py.  "w" stands for "wc", "s w" for "staff wc" and
\* "w d" for "wc for disabled".
\* ---------------------------------------------------------------------------
MaxSpaces == 2

MaxClassrooms == 7

MaxStaffWc == 2

wc == <<"w">>

staff_wc == <<"s", " ", "w">>

wc_for_disabled == <<"w", " ", "d">>

\* an IfcSpace with its LongName, its Name and the area of its footprint
Space(ln, nm, a) == [is_a |-> "IfcSpace", LongName |-> ln, Name |-> nm, area |-> a]

\* spaces named Classroom, Classroom 1, Classroom by Name under a blank
\* LongName, WC, WC 1, Staff WC, WC for disabled
SpacePool ==
    {Space(<<"K">>, <<"1">>, 0), Space(<<"K", " ", "1">>, <<>>, 0),
     Space(<<" ">>, <<"K">>, 0), Space(<<"W">>, <<>>, 0),
     Space(<<"W", " ", "1">>, <<>>, 0), Space(<<"S", " ", "W">>, <<>>, 0),
     Space(<<"W", " ", "D">>, <<>>, 0)}

Repeat(e, n) == [i \in 1..n |-> e]

\* wc_number_checker.py get_space_name: (ln or nm).strip()
get_space_name(space) ==
    strip(IF space.LongName # <<>> THEN space.LongName ELSE space.Name)

\* staff_wc_checker.py get_space_name, disabled_wc_checker.py _get_space_name:
\* ln.strip() if ln and ln.strip() else nm.strip()
staff_get_space_name(space) ==
    IF space.LongName # <<>> /\ strip(space.LongName) # <<>>
    THEN strip(space.LongName) ELSE strip(space.Name)

\* best_room_label: the first of LongName, Name that is not blank, stripped
best_room_label(space) == FirstNonBlank(<<space.LongName, space.Name>>, 1)

count_rooms_by_label(f, lbl) ==
    IF lbl = <<>> THEN 0
    ELSE Len(SelectSeq(by_type(f, "IfcSpace"), LAMBDA sp :
             get_space_name(sp) # <<>> /\ lower(get_space_name(sp)) = lower(lbl)))

count_rooms_exact(f, lbl) ==
    IF lbl = <<>> THEN 0
    ELSE Len(SelectSeq(by_type(f, "IfcSpace"), LAMBDA sp :
             staff_get_space_name(sp) # <<>>
             /\ lower(staff_get_space_name(sp)) = lower(lbl)))

\* str.casefold() is str.lower() on these characters
_count_rooms_exact_casefold(f, lbl) ==
    IF lbl = <<>> THEN 0
    ELSE Len(SelectSeq(by_type(f, "IfcSpace"), LAMBDA sp :
             staff_get_space_name(sp) # <<>>
             /\ lower(staff_get_space_name(sp)) = lower(lbl)))

floor_div(n, d) == n \div d

\* math.ceil(n / d)
math_ceil(n, d) == (n + d - 1) \div d

InitWc ==
    /\ pc = "opened"
    /\ \/ ifc \in UNION {[1..n -> SpacePool] : n \in 0..MaxSpaces}
       \/ \E a \in 0..MaxClassrooms, b \in 0..MaxStaffWc :
             ifc = Repeat(Space(<<"K">>, <<"1">>, 0), a)
                   \o Repeat(Space(<<"S", " ", "W">>, <<>>, 0), b)
    /\ IdleAgg /\ IdleCanon /\ IdleAssign /\ IdleSession

othersWc ==
    <<label, key, yard_key, edit, rooms, chairs, ifc, furn_map, built_by,
      session_state>>

render_wc_number_check ==
    LET cls_n == count_rooms_by_label(ifc, classroom)
        wc_n == count_rooms_by_label(ifc, wc)
    IN  /\ pc = "opened"
        /\ result' = [check |-> "wc_number", class_count |-> cls_n,
                      wc_count |-> wc_n,
                      status |-> IF wc_n >= cls_n THEN "OK" ELSE "NOT_OK",
                      deficit |-> IF wc_n >= cls_n THEN 0 ELSE cls_n - wc_n]
        /\ pc' = "checked"
        /\ UNCHANGED othersWc

render_staff_wc_check ==
    LET cls_n == count_rooms_exact(ifc, classroom)
        staffwc_n == count_rooms_exact(ifc, staff_wc)
        required == IF cls_n > 0 THEN math_ceil(cls_n, 6) ELSE 0
        short == IF required - staffwc_n > 0 THEN required - staffwc_n ELSE 0
    IN  /\ pc = "opened"
        /\ result' = [check |-> "staff_wc", class_count |-> cls_n,
                      staff_wc_count |-> staffwc_n, required |-> required,
                      status |-> IF staffwc_n >= required THEN "OK" ELSE "NOT_OK",
                      deficit |-> IF staffwc_n >= required THEN 0 ELSE short]
        /\ pc' = "checked"
        /\ UNCHANGED othersWc

render_disabled_wc_check ==
    LET count == _count_rooms_exact_casefold(ifc, wc_for_disabled)
    IN  /\ pc = "opened"
        /\ result' = [check |-> "disabled_wc", count |-> count,
                      status |-> IF count > 0 THEN "OK" ELSE "NOT_OK"]
        /\ pc' = "checked"
        /\ UNCHANGED othersWc

NextWc ==
    render_wc_number_check \/ render_staff_wc_check \/ render_disabled_wc_check

SpecWc == InitWc /\ [][NextWc]_vars

\* the spaces of the model whose label canonicalizes to the standard label
CanonicalMatches(std) ==
    Cardinality({i \in 1..Len(ifc) :
        /\ ifc[i].is_a = "IfcSpace"
        /\ canonicalize(best_room_label(ifc[i])) = canonicalize(std)})

\* C11: a space is counted for a standard label exactly when the canonical
\* form of its LongName-else-Name label equals the canonical standard label,
\* in every check.
C11_CountsCanonicalMatches ==
    pc = "checked" =>
        /\ result.check = "wc_number" =>
              /\ result.class_count = CanonicalMatches(classroom)
              /\ result.wc_count = CanonicalMatches(wc)
        /\ result.check = "staff_wc" =>
              /\ result.class_count = CanonicalMatches(classroom)
              /\ result.staff_wc_count = CanonicalMatches(staff_wc)
        /\ result.check = "disabled_wc" =>
              result.count = CanonicalMatches(wc_for_disabled)

\* C19: the required number of staff WCs is ceil(classrooms / 6), the status
\* is OK exactly when the staff WC count reaches it, and the deficit is
\* max(0, required - staff WC count).
C19_StaffWcRequired ==
    pc = "checked" /\ result.check = "staff_wc" =>
        /\ result.class_count
           = Cardinality({i \in 1..Len(ifc) :
                 lower(staff_get_space_name(ifc[i])) = classroom})
        /\ 6 * result.required >= result.class_count
        /\ 6 * result.required < result.class_count + 6
        /\ (result.status = "OK") <=> (result.staff_wc_count >= result.required)
        /\ result.status \in {"OK", "NOT_OK"}
        /\ result.deficit >= 0
        /\ result.deficit >= result.required - result.staff_wc_count
        /\ result.deficit \in {0, result.required - result.staff_wc_count}

\* seven classrooms need two staff WCs and one is there
C19_Witness ==
    /\ pc = "checked" /\ result.check = "staff_wc"
    /\ result.class_count = 7 /\ result.required = 2
    /\ result.staff_wc_count = 1 /\ result.status = "NOT_OK" /\ result.deficit = 1

\* ---------------------------------------------------------------------------
\* Closed areas per capita: run_area_per_capita_check of
\* area_per_capita_checker.py.  Areas and coefficients are counted in
\* thousandths of a square metre (of a square metre per student); a value
\* formatted with two decimals is counted in hundredths.  "h" stands for
\* "workshop", "c s" for "computer site", "p r" for "praying room" and "b"
\* for "library".
\* ---------------------------------------------------------------------------
MaxStudents == 2

workshop == <<"h">>

computer_site == <<"c", " ", "s">>

praying_room == <<"p", " ", "r">>

library == <<"b">>

\* the index of the selected school type in SCHOOL_TYPES
SCHOOL_TYPES == 1..4

COEFFS ==
    [Classroom |-> <<1700, 1850, 1800, 2000>>,
     Workshop |-> <<2500, 2700, 3000, 0>>,
     Labs |-> <<2020, 2020, 3200, 3200>>,
     Computer_Site |-> <<2020, 2020, 2550, 2550>>,
     Praying_Room |-> <<800, 800, 900, 900>>,
     Library |-> <<1600, 1800, 2000, 2000>>]

LIBRARY_FIXED_STUDENTS == 24

STANDARD_TO_RULE(std_key) ==
    CASE std_key = classroom -> "Classroom"
      [] std_key = workshop -> "Workshop"
      [] std_key = laboratory -> "Labs"
      [] std_key = computer_site -> "Computer_Site"
      [] std_key = praying_room -> "Praying_Room"
      [] std_key = library -> "Library"
      [] OTHER -> "None"

RUN_ORDER == <<classroom, workshop, laboratory, computer_site, praying_room, library>>

\* f"{x:.2f}" of a non-negative x that is not half way between two hundredths
fmt2(x) == (x + 5) \div 10

\* the sum of a_model * area_scale over the spaces from i on whose canonical
\* label is target; the models here declare no units, so area_scale is 1
RECURSIVE AreaFrom(_, _, _)
AreaFrom(spaces, target, i) ==
    IF i > Len(spaces) THEN 0
    ELSE LET n == best_room_label(spaces[i])
         IN  (IF n # <<>> /\ canonicalize(n) = target /\ spaces[i].area > 0
              THEN spaces[i].area ELSE 0)
             + AreaFrom(spaces, target, i + 1)

total_area_for_standard_key(f, std_key) ==
    AreaFrom(by_type(f, "IfcSpace"), lower(strip(std_key)), 1)

coefficient_never_zero(per_capita) == FALSE

\* per_capita == 0.0
coefficient_is_zero(per_capita) == per_capita = 0

students_always_detected(rule_group, students_detected) == students_detected

students_used(rule_group, students_detected) ==
    IF rule_group = "Library" THEN LIBRARY_FIXED_STUDENTS ELSE students_detected

\* the record appended for std_key in the loop over RUN_ORDER
apc_record(f, std_key, idx_school, students_detected) ==
    LET available_area == total_area_for_standard_key(f, std_key)
        rule_group == STANDARD_TO_RULE(std_key)
        per_capita == COEFFS[rule_group][idx_school]
        used == students_used(rule_group, students_detected)
        required_area == used * per_capita
        ok == available_area >= required_area
    IN  IF rule_group \notin DOMAIN COEFFS
        THEN [Standard_Name |-> std_key, Rule_Group |-> "-", Students_Used |-> "-",
              Per_capita |-> "-", Required |-> "-",
              Available |-> fmt2(available_area),
              Status |-> "NOT REQUIRED", Shortfall |-> "-"]
        ELSE IF coefficient_is_zero(per_capita)
        THEN [Standard_Name |-> std_key, Rule_Group |-> rule_group,
              Students_Used |-> "-", Per_capita |-> fmt2(per_capita),
              Required |-> "-", Available |-> fmt2(available_area),
              Status |-> "NOT REQUIRED", Shortfall |-> "-"]
        ELSE IF available_area <= 0
        THEN [Standard_Name |-> std_key, Rule_Group |-> rule_group,
              Students_Used |-> used, Per_capita |-> fmt2(per_capita),
              Required |-> fmt2(required_area), Available |-> fmt2(available_area),
              Status |-> "NO ROOM", Shortfall |-> fmt2(required_area)]
        ELSE [Standard_Name |-> std_key, Rule_Group |-> rule_group,
              Students_Used |-> used, Per_capita |-> fmt2(per_capita),
              Required |-> fmt2(required_area), Available |-> fmt2(available_area),
              Status |-> IF ok THEN "OK" ELSE "NOT OK",
              Shortfall |-> IF ok THEN 0 ELSE fmt2(required_area - available_area)]

StudentChair == Furnishing("IfcFurnishingElement", <<"S", " ", "c">>, <<>>, NoType)

\* classrooms of 1.7, 1.696, 4 and 0 square metres, a workshop, libraries of
\* 38.4 and 40 square metres
ApcSpacePool ==
    {Space(<<"K">>, <<"1">>, 1700), Space(<<"K">>, <<"1">>, 1696),
     Space(<<"K", " ", "1">>, <<>>, 4000), Space(<<"K">>, <<"1">>, 0),
     Space(workshop, <<>>, 2500), Space(library, <<>>, 38400),
     Space(library, <<>>, 40000)}

InitApc ==
    /\ pc = "opened"
    /\ \E spaces \in UNION {[1..n -> ApcSpacePool] : n \in 0..MaxSpaces},
          n_students \in 0..MaxStudents :
              ifc = spaces \o Repeat(StudentChair, n_students)
    /\ IdleAgg /\ IdleCanon /\ IdleAssign /\ IdleSession

othersApc ==
    <<label, key, yard_key, edit, rooms, chairs, ifc, furn_map, built_by>>

\* st.session_state with key k set to v
Stored(ss, k, v) ==
    [x \in DOMAIN ss \cup {k} |-> IF x = k THEN v ELSE ss[x]]

run_area_per_capita_check ==
    \E idx_school \in SCHOOL_TYPES :
        LET ss == Cached(session_state, "apc_furn_map", build_furn_map(ifc))
            apc_students == auto_students(ss["apc_furn_map"])
        IN  /\ pc = "opened"
            /\ session_state' = Stored(ss, "apc_students", apc_students)
            /\ result' = [i \in 1..Len(RUN_ORDER) |->
                             apc_record(ifc, RUN_ORDER[i], idx_school, apc_students)]
            /\ pc' = "evaluated"
            /\ UNCHANGED othersApc

SpecApc == InitApc /\ [][run_area_per_capita_check]_vars

\* the area, in thousandths, of the spaces of the model whose label
\* canonicalizes to std
RECURSIVE SumAreas(_)
SumAreas(S) ==
    IF S = {} THEN 0
    ELSE LET i == CHOOSE i \in S : TRUE
         IN  ifc[i].area + SumAreas(S \ {i})

TrueAvailable(std) ==
    SumAreas({i \in 1..Len(ifc) :
        /\ ifc[i].is_a = "IfcSpace"
        /\ canonicalize(best_room_label(ifc[i])) = std})

\* the student chairs of the model
Detected == Cardinality({i \in 1..Len(ifc) : ifc[i].is_a # "IfcSpace"})

Max(a, b) == IF a >= b THEN a ELSE b

\* C12: a rule group whose coefficient is 0.0 for the selected school type
\* gets the status NOT REQUIRED whatever the area and the student count, and
\* its record still reports the available area.
C12_ZeroCoefficientNotRequired ==
    pc = "evaluated" =>
        \A i \in 1..Len(result) :
            result[i].Per_capita = 0 =>
                /\ result[i].Status = "NOT REQUIRED"
                /\ result[i].Available = fmt2(TrueAvailable(RUN_ORDER[i]))

\* a workshop of 2.5 square metres and two students under the school type
\* whose workshop coefficient is 0.0
C12_Witness ==
    /\ pc = "evaluated"
    /\ Detected = 2
    /\ \E i \in 1..Len(result) :
          /\ result[i].Rule_Group = "Workshop"
          /\ result[i].Per_capita = 0
          /\ result[i].Available = 250
          /\ result[i].Status = "NOT REQUIRED"

\* C14: with a nonzero coefficient the status is OK whenever the available
\* area is at least the required area, equality and 0 >= 0 included.
C14_EnoughIsOk ==
    pc = "evaluated" =>
        \A i \in 1..Len(result) :
            /\ result[i].Status # "NOT REQUIRED"
            /\ TrueAvailable(RUN_ORDER[i]) >= 10 * result[i].Required
            => result[i].Status = "OK"

\* C15: a record that carries a shortfall has shortfall = max(0, required -
\* available); the shortfall is never negative, is 0 exactly when the status
\* is OK and is required - available > 0 when the status is NOT OK.
C15_ShortfallMatchesStatus ==
    pc = "evaluated" =>
        \A i \in 1..Len(result) :
            result[i].Status # "NOT REQUIRED" =>
                /\ result[i].Shortfall >= 0
                /\ result[i].Shortfall
                   = Max(0, result[i].Required - result[i].Available)
                /\ (result[i].Shortfall = 0) <=> (result[i].Status = "OK")
                /\ result[i].Status = "NOT OK" =>
                      result[i].Shortfall > 0

\* C17: the Library rule uses 24 students, every other rule group the
\* detected student count, and the required area is students used times the
\* coefficient of the rule group at the selected school type.
C17_StudentsUsedAndRequired ==
    pc = "evaluated" =>
        \E idx \in SCHOOL_TYPES :
            \A i \in 1..Len(result) :
                LET g == STANDARD_TO_RULE(RUN_ORDER[i])
                IN  /\ result[i].Rule_Group = g
                    /\ result[i].Per_capita = fmt2(COEFFS[g][idx])
                    /\ result[i].Status # "NOT REQUIRED" =>
                          /\ result[i].Students_Used
                             = (IF g = "Library" THEN 24 ELSE Detected)
                          /\ 10 * result[i].Required
                             = result[i].Students_Used * COEFFS[g][idx]

\* two students detected: the library of 40 square metres is checked for 24
\* students and the classroom for 2
C17_Witness ==
    /\ pc = "evaluated"
    /\ Detected = 2
    /\ \E i \in 1..Len(result) :
          /\ result[i].Rule_Group = "Library"
          /\ result[i].Status = "OK"
          /\ result[i].Students_Used = 24
          /\ result[i].Required = 3840
    /\ \E i \in 1..Len(result) :
          /\ result[i].Rule_Group = "Classroom"
          /\ result[i].Students_Used = 2
          /\ result[i].Required = 340

\* ------------------------------------------------------------ yard checks
\* areas and coefficients in thousandths of a square metre
yard == <<"y">>

drinking_room == <<"d", " ", "r">>

janitor_room == <<"j", " ", "r">>

green_area == <<"g", " ", "a">>

QUEUE_YARD_COEFS == <<1200, 1400, 1500, 1700>>

PLAYGROUND_MIN_M2 == <<110000, 136000, 360000, 589000>>

WC_PER_WC_COEFS == <<3200, 3200, 3600, 3600>>

DRINKING_PER_STUD_COEFS == <<1400, 1400, 1600, 1600>>

JANITOR_MIN_M2 == 55000

GREEN_PER_STUD_COEF == 500

\* the loop over ifc.by_type("IfcSpace"): total area and number of the
\* spaces of positive area whose canonical label is target
RECURSIVE AreaCountFrom(_, _, _)
AreaCountFrom(spaces, target, i) ==
    IF i > Len(spaces) THEN [total |-> 0, count |-> 0]
    ELSE LET rest == AreaCountFrom(spaces, target, i + 1)
         IN  IF /\ yard_canonicalize(best_room_label(spaces[i])) = target
                /\ spaces[i].area > 0
             THEN [total |-> spaces[i].area + rest.total, count |-> 1 + rest.count]
             ELSE rest

total_area_and_count_for_standard_key(f, k) ==
    AreaCountFrom(by_type(f, "IfcSpace"), lower(k), 1)

yard_total_area_for_standard_key(f, k) ==
    AreaCountFrom(by_type(f, "IfcSpace"), lower(k), 1).total

\* results.append({...}) of run_yard_checks, amounts as printed by
\* f"{x:.2f}"
yard_record(chk, req, area, ok) ==
    [Check |-> chk, Required |-> fmt2(req), Available |-> fmt2(area),
     Status |-> IF ok THEN "OK" ELSE "NOT OK",
     Shortfall |-> fmt2(IF req - area > 0 THEN req - area ELSE 0)]

\* the WC record is appended in the else branch of "if wc_count==0"
wc_records(wc_area, wc_count, per_wc) ==
    IF wc_count = 0 THEN <<>>
    ELSE <<yard_record("WC", per_wc * wc_count, wc_area,
                       wc_area >= per_wc * wc_count)>>

yard_results(f, idx_school, n_students) ==
    LET yard_area == yard_total_area_for_standard_key(f, yard)
        wc_ac == total_area_and_count_for_standard_key(f, wc)
        drink_area == yard_total_area_for_standard_key(f, drinking_room)
        janitor_area == yard_total_area_for_standard_key(f, janitor_room)
        green == yard_total_area_for_standard_key(f, green_area)
        queue_req == n_students * QUEUE_YARD_COEFS[idx_school]
        min_req == PLAYGROUND_MIN_M2[idx_school]
        drink_req == n_students * DRINKING_PER_STUD_COEFS[idx_school]
        green_req == n_students * GREEN_PER_STUD_COEF
    IN  <<yard_record("Queue Yard", queue_req, yard_area, yard_area >= queue_req),
          yard_record("Playground", min_req, yard_area, yard_area >= min_req)>>
        \o wc_records(wc_ac.total, wc_ac.count, WC_PER_WC_COEFS[idx_school])
        \o <<yard_record("Drinking Room", drink_req, drink_area,
                         drink_area >= drink_req),
             yard_record("Janitor Room", JANITOR_MIN_M2, janitor_area,
                         janitor_area >= JANITOR_MIN_M2),
             yard_record("Green Area", green_req, green, green >= green_req)>>

\* a yard of 110 and of 2.4 square metres, WCs of 3.2 and 3, a drinking room,
\* a janitor room and a green area
YardSpacePool ==
    {Space(yard, <<>>, 110000), Space(yard, <<>>, 2400),
     Space(wc, <<>>, 3200), Space(<<"W", " ", "1">>, <<>>, 3000),
     Space(drinking_room, <<>>, 2800), Space(janitor_room, <<>>, 55000),
     Space(green_area, <<>>, 1000)}

InitYard ==
    /\ pc = "opened"
    /\ \E spaces \in UNION {[1..n -> YardSpacePool] : n \in 0..MaxSpaces},
          n_students \in 0..MaxStudents :
              ifc = spaces \o Repeat(StudentChair, n_students)
    /\ IdleAgg /\ IdleCanon /\ IdleAssign /\ IdleSession

run_yard_checks ==
    \E idx_school \in SCHOOL_TYPES :
        LET ss == Cached(session_state, "yard_furn_map", yard_build_furn_map(ifc))
        IN  /\ pc = "opened"
            /\ session_state' = ss
            /\ result' = yard_results(ifc, idx_school, students(ss["yard_furn_map"]))
            /\ pc' = "evaluated"
            /\ UNCHANGED othersApc

SpecYard == InitYard /\ [][run_yard_checks]_vars

\* the checks configured for the yard
YardChecks ==
    <<"Queue Yard", "Playground", "WC", "Drinking Room", "Janitor Room",
      "Green Area">>

\* C13: a yard check with a positive required quantity and no available area
\* does not get the status NOT OK.
C13_NoSourceNotNotOk ==
    pc = "evaluated" =>
        \A i \in 1..Len(result) :
            result[i].Required > 0 /\ result[i].Available = 0
            => result[i].Status # "NOT OK"

\* C16: the yard check emits exactly one record for each of its six checks,
\* in their order, for every model.
C16_OneRecordPerCheck ==
    pc = "evaluated" =>
        /\ Len(result) = Len(YardChecks)
        /\ \A i \in 1..Len(result) : result[i].Check = YardChecks[i]

\* ------------------------------------------------------------ capacity
\* the rooms shown on tab t of ch2.py
TabRooms(t) ==
    IF t = 1 THEN {i \in 1..Len(rooms) : IsClassroomType(rooms[i])}
    ELSE IF \E i \in 1..Len(rooms) : IsLaboratoryType(rooms[i])
         THEN {i \in 1..Len(rooms) : IsLaboratoryType(rooms[i])}
         ELSE {i \in 1..Len(rooms) : IsRoomType(rooms[i])}

TimesIn(list, k) == Cardinality({m \in 1..Len(list) : list[m] = k})

\* C18: each filtered room has one record whose status is OK exactly when
\* its assigned count is <= max_cap and NOT OK otherwise, and that record is
\* once in exactly one of the GOOD and BAD lists, GOOD exactly when OK.
C18_CapacityStatus ==
    pc = "ch2_done" =>
        \A t \in 1..Len(result.tabs) :
            LET tab == result.tabs[t]
            IN  /\ Len(tab.ordered) = Cardinality(TabRooms(t))
                /\ {tab.ordered[k] : k \in 1..Len(tab.ordered)} = TabRooms(t)
                /\ Len(tab.results) = Len(tab.ordered)
                /\ \A k \in 1..Len(tab.results) :
                      LET cnt == Len(rooms[tab.ordered[k]].chairs)
                      IN  /\ tab.results[k].chair_count = cnt
                          /\ tab.results[k].status
                             = (IF cnt <= result.max_cap THEN "OK" ELSE "NOT OK")
                          /\ TimesIn(tab.good, k) + TimesIn(tab.bad, k) = 1
                          /\ TimesIn(tab.good, k) = 1
                             <=> tab.results[k].status = "OK"

\* a classroom holding exactly max_cap = 2 student chairs is in GOOD
C18_Witness ==
    /\ pc = "ch2_done"
    /\ result.max_cap = 2
    /\ \E k \in 1..Len(result.tabs[1].results) :
          /\ result.tabs[1].results[k].chair_count = 2
          /\ result.tabs[1].results[k].status = "OK"
          /\ TimesIn(result.tabs[1].good, k) = 1

\* ------------------------------------------------------------ unit scaler
\* length scales in thousandths (1.0 is 1000), area scales in millionths;
\* of the SI prefixes those from MILLI to DECA are representable
MaxUnits == 2

_si_prefix_scale(prefix) ==
    CASE prefix = "DECA" -> 10000
      [] prefix = "DECI" -> 100
      [] prefix = "CENTI" -> 10
      [] prefix = "MILLI" -> 1
      [] OTHER -> 1000

SIUnit(ut, nm, prefix) ==
    [is_a |-> "IfcSIUnit", UnitType |-> ut, Name |-> nm, Prefix |-> prefix,
     ValueComponent |-> 0, UnitComponent |-> "None"]

\* an IfcConversionBasedUnit whose ConversionFactor has the value val and the
\* SI unit named nm as its unit component
ConversionBasedUnit(ut, val, nm) ==
    [is_a |-> "IfcConversionBasedUnit", UnitType |-> ut, Name |-> "FOOT",
     Prefix |-> "None", ValueComponent |-> val, UnitComponent |-> nm]

\* metres with and without prefix, an area unit, feet of 0.305 m, length
\* units whose declared conversion value is 0 or -1, and one whose conversion
\* factor lacks its unit component
UnitPool ==
    {SIUnit("LENGTHUNIT", "METRE", "None"), SIUnit("LENGTHUNIT", "METRE", "MILLI"),
     SIUnit("LENGTHUNIT", "METRE", "DECA"), SIUnit("AREAUNIT", "SQUARE_METRE", "None"),
     ConversionBasedUnit("LENGTHUNIT", 305, "METRE"),
     ConversionBasedUnit("LENGTHUNIT", 0, "METRE"),
     ConversionBasedUnit("LENGTHUNIT", 0 - 1000, "METRE"),
     ConversionBasedUnit("LENGTHUNIT", 305, "None"),
     ConversionBasedUnit("PLANEANGLEUNIT", 17, "RADIAN")}

\* UnitsInContext is <<>> when the project has no unit assignment
IfcProject(ua) == [is_a |-> "IfcProject", UnitsInContext |-> ua]

\* a call returns a value or raises: [raised, value]
\* the loop "for u in ua.Units or []" from unit i on; float_ok says whether
\* float() accepts the ValueComponent the library hands over or raises; a
\* ConversionFactor without unit component raises AttributeError
RECURSIVE LengthScaleFrom(_, _, _)
LengthScaleFrom(units, i, float_ok) ==
    IF i > Len(units) THEN [raised |-> FALSE, value |-> 1000]
    ELSE LET u == units[i]
         IN  IF /\ u.is_a = "IfcSIUnit" /\ u.UnitType = "LENGTHUNIT"
                /\ u.Name = "METRE"
             THEN [raised |-> FALSE,
                   value |-> IF u.Prefix # "None" THEN _si_prefix_scale(u.Prefix)
                             ELSE 1000]
             ELSE IF u.is_a = "IfcConversionBasedUnit" /\ u.UnitType = "LENGTHUNIT"
                  THEN IF ~float_ok \/ u.UnitComponent = "None"
                       THEN [raised |-> TRUE, value |-> 0]
                       ELSE IF u.UnitComponent = "METRE"
                       THEN [raised |-> FALSE, value |-> u.ValueComponent]
                       ELSE LengthScaleFrom(units, i + 1, float_ok)
                  ELSE LengthScaleFrom(units, i + 1, float_ok)

uncaught(outcome) == outcome

\* except Exception: pass, then return 1.0
caught(outcome) ==
    IF outcome.raised THEN [raised |-> FALSE, value |-> 1000] ELSE outcome

get_length_scale_m(f, float_ok) ==
    caught(IF by_type(f, "IfcProject") = <<>> THEN [raised |-> TRUE, value |-> 0]
           ELSE IF by_type(f, "IfcProject")[1].UnitsInContext = <<>>
           THEN [raised |-> FALSE, value |-> 1000]
           ELSE LengthScaleFrom(by_type(f, "IfcProject")[1].UnitsInContext[1], 1,
                                float_ok))

get_area_scale_m2(f, float_ok) ==
    LET s == get_length_scale_m(f, float_ok)
    IN  [raised |-> s.raised, value |-> s.value * s.value]

\* area_per_capita_checker2.py: the loop reads SI units only, and "ua.Units"
\* raises when the project has no unit assignment
yard_get_length_scale_m(f) ==
    LET RECURSIVE SIScaleFrom(_, _)
        SIScaleFrom(units, i) ==
            IF i > Len(units) THEN 1000
            ELSE IF /\ units[i].is_a = "IfcSIUnit"
                    /\ units[i].UnitType = "LENGTHUNIT"
                    /\ units[i].Name = "METRE"
                 THEN IF units[i].Prefix # "None"
                      THEN _si_prefix_scale(units[i].Prefix) ELSE 1000
                 ELSE SIScaleFrom(units, i + 1)
    IN  caught(IF by_type(f, "IfcProject") = <<>> THEN [raised |-> TRUE, value |-> 0]
               ELSE IF by_type(f, "IfcProject")[1].UnitsInContext = <<>>
               THEN [raised |-> TRUE, value |-> 0]
               ELSE [raised |-> FALSE,
                     value |-> SIScaleFrom(
                         by_type(f, "IfcProject")[1].UnitsInContext[1], 1)])

yard_get_area_scale_m2(f) ==
    LET s == yard_get_length_scale_m(f)
    IN  [raised |-> s.raised, value |-> s.value * s.value]

InitUnits ==
    /\ pc = "opened"
    /\ \/ ifc = <<>>
       \/ ifc = <<IfcProject(<<>>)>>
       \/ \E units \in UNION {[1..n -> UnitPool] : n \in 0..MaxUnits} :
              ifc = <<IfcProject(<<units>>)>>
    /\ IdleAgg /\ IdleCanon /\ IdleAssign /\ IdleSession

apc_unit_scaler ==
    \E float_ok \in BOOLEAN :
        /\ pc = "opened"
        /\ result' = [by |-> "area_per_capita_checker",
                      raised |-> get_area_scale_m2(ifc, float_ok).raised,
                      length |-> get_length_scale_m(ifc, float_ok).value,
                      area |-> get_area_scale_m2(ifc, float_ok).value]
        /\ pc' = "scaled"
        /\ UNCHANGED <<session_state, othersApc>>

praying_unit_scaler ==
    \E float_ok \in BOOLEAN :
        /\ pc = "opened"
        /\ result' = [by |-> "praying_room_checker",
                      raised |-> get_area_scale_m2(ifc, float_ok).raised,
                      length |-> get_length_scale_m(ifc, float_ok).value,
                      area |-> get_area_scale_m2(ifc, float_ok).value]
        /\ pc' = "scaled"
        /\ UNCHANGED <<session_state, othersApc>>

yard_unit_scaler ==
    /\ pc = "opened"
    /\ result' = [by |-> "area_per_capita_checker2",
                  raised |-> yard_get_area_scale_m2(ifc).raised,
                  length |-> yard_get_length_scale_m(ifc).value,
                  area |-> yard_get_area_scale_m2(ifc).value]
    /\ pc' = "scaled"
    /\ UNCHANGED <<session_state, othersApc>>

NextUnits ==
    \/ apc_unit_scaler
    \/ praying_unit_scaler
    \/ yard_unit_scaler

SpecUnits == InitUnits /\ [][NextUnits]_vars

\* C20: the length scale and the area scale are strictly positive for every
\* model, whatever prefixes and conversion values its units declare.
C20_ScalesPositive ==
    pc = "scaled" => result.length > 0 /\ result.area > 0

\* ------------------------------------------------------------ display
\* C27: lower-casing the display string of a group of the furnishing
\* aggregate yields the canonical key of the group (groups with the empty key
\* set aside).
C27_DisplayLowersToKey ==
    pc = "aggregated" =>
        \A i \in 1..Len(furn_map) :
            furn_map[i].key # <<>> =>
                lower(furn_map[i].display) = furn_map[i].key

\* ------------------------------------------------------------ labels
\* LongName if it is not blank after trimming, else Name
ResolvedLabel(sp) ==
    IF strip(sp.LongName) # <<>> THEN strip(sp.LongName) ELSE strip(sp.Name)

ClassroomsByResolvedLabel ==
    Cardinality({i \in 1..Len(ifc) :
        ifc[i].is_a = "IfcSpace" /\ lower(ResolvedLabel(ifc[i])) = classroom})

\* C30: the WC number check and the staff WC check report the same classroom
\* count for every model: the number of spaces whose label, LongName if not
\* blank after trimming else Name, is the classroom label.
C30_SameClassroomCount ==
    pc = "checked" /\ result.check \in {"wc_number", "staff_wc"} =>
        result.class_count = ClassroomsByResolvedLabel

\* ------------------------------------------------------------ repeated passes
MaxCalls == 2

\* assign_chairs_to_rooms(classroom_rooms, classroom_chairs, z_tol_m) called
\* once more on the same dict of rooms and the same list of chairs
CallAssignChairsToRooms ==
    /\ pc \in {"collected", "assigned"}
    /\ (IF pc = "collected" THEN 0 ELSE result.calls) < MaxCalls
    /\ rooms' = assign_chairs_to_rooms(rooms, checker_classroom_rooms(rooms),
                                       classroom_chairs(chairs), DEFAULT_Z_TOL_M)
    /\ result' = [calls |-> IF pc = "collected" THEN 1 ELSE result.calls + 1]
    /\ pc' = "assigned"
    /\ UNCHANGED <<chairs, othersRooms>>

SpecReassign == InitAssign /\ [][CallAssignChairsToRooms]_vars

\* the rooms as collect_rooms made them
Collected == [i \in 1..Len(rooms) |-> [rooms[i] EXCEPT !.chairs = <<>>]]

RECURSIVE TotalAssigned(_)
TotalAssigned(i) ==
    IF i > Len(rooms) THEN 0 ELSE Len(rooms[i].chairs) + TotalAssigned(i + 1)

\* C29: after any number of calls in a row every room has the list a single
\* call gives it, and the assigned ids of all rooms together are no more than
\* the furnishings passed in.
C29_PassesDoNotAccumulate ==
    pc = "assigned" =>
        /\ rooms = assign_chairs_to_rooms(Collected, checker_classroom_rooms(Collected),
                                          classroom_chairs(chairs), DEFAULT_Z_TOL_M)
        /\ TotalAssigned(1) <= Len(classroom_chairs(chairs))

\* a second call on a classroom that the first call gave a chair
C29_Witness ==
    /\ pc = "assigned"
    /\ result.calls >= 2
    /\ \E i \in 1..Len(rooms) : Len(rooms[i].chairs) >= 1

\* ------------------------------------------------------------ unit defaults
\* the units the project of the model declares (<<>>: no project or no unit
\* assignment)
DeclaredUnits ==
    IF ifc = <<>> THEN <<>>
    ELSE IF ifc[1].UnitsInContext = <<>> THEN <<>>
    ELSE ifc[1].UnitsInContext[1]

LengthUnitAt(i) == DeclaredUnits[i].UnitType = "LENGTHUNIT"

\* the first length unit of the model is unit i
FirstLengthUnit(i) ==
    /\ i \in 1..Len(DeclaredUnits)
    /\ LengthUnitAt(i)
    /\ \A j \in 1..(i - 1) : ~LengthUnitAt(j)

\* C21: get_length_scale_m never raises, and with no project, no units
\* collection, no length unit or a failing attribute lookup the length scale
\* and the area scale are 1.0.
C21_ScaleDefaultsToOne ==
    pc = "scaled" =>
        /\ ~result.raised
        /\ \/ ifc = <<>>
           \/ ifc[1].UnitsInContext = <<>>
           \/ \A i \in 1..Len(DeclaredUnits) : ~LengthUnitAt(i)
           \/ /\ result.by # "area_per_capita_checker2"
              /\ \E i \in 1..Len(DeclaredUnits) :
                    FirstLengthUnit(i) /\ DeclaredUnits[i].UnitComponent = "None"
                    /\ DeclaredUnits[i].is_a = "IfcConversionBasedUnit"
           => result.length = 1000 /\ result.area = 1000000

\* a project whose only length unit has a conversion factor without unit
\* component, read by area_per_capita_checker
C21_Witness ==
    /\ pc = "scaled"
    /\ result.by = "area_per_capita_checker"
    /\ \E i \in 1..Len(DeclaredUnits) :
          /\ FirstLengthUnit(i)
          /\ DeclaredUnits[i].is_a = "IfcConversionBasedUnit"
          /\ DeclaredUnits[i].UnitComponent = "None"
    /\ result.length = 1000

\* C24: in the yard checks a length unit declared as a conversion-based unit
\* over the SI metre gives the declared conversion value as length scale and
\* its square as area scale.
C24_YardConversionValue ==
    pc = "scaled" /\ result.by = "area_per_capita_checker2" =>
        \A i \in 1..Len(DeclaredUnits) :
            /\ FirstLengthUnit(i)
            /\ DeclaredUnits[i].is_a = "IfcConversionBasedUnit"
            /\ DeclaredUnits[i].UnitComponent = "METRE"
            => /\ result.length = DeclaredUnits[i].ValueComponent
               /\ result.area = DeclaredUnits[i].ValueComponent
                                * DeclaredUnits[i].ValueComponent

\* ------------------------------------------------------------ placements
\* an IfcLocalPlacement chain is the sequence of its links from the element
\* outwards (PlacementRelTo); a link holds the Coordinates of its Location
\* (<<>>: no Location) and the DirectionRatios of RefDirection and Axis (<<>>:
\* the attribute is None)
MaxDepth == 3

Link(loc, ref, axis) == [Location |-> loc, RefDirection |-> ref, Axis |-> axis]

IdentityLink == Link(<<0, 0, 0>>, <<>>, <<>>)

\* the identity, translations, a translation with a quarter turn about z, one
\* with X along z and Z along x, one with the defaults spelled out; links
\* with a 2D location, without location and with a 2D direction
LinkPool ==
    {IdentityLink,
     Link(<<1, 1, 1>>, <<>>, <<>>),
     Link(<<2, 0, 0>>, <<>>, <<>>),
     Link(<<1, 0, 0>>, <<0, 1, 0>>, <<>>),
     Link(<<0, 0, 1>>, <<0, 0, 1>>, <<1, 0, 0>>),
     Link(<<0, 1, 0>>, <<1, 0, 0>>, <<0, 0, 1>>),
     Link(<<1, 1>>, <<>>, <<>>),
     Link(<<>>, <<>>, <<>>),
     Link(<<1, 0, 0>>, <<1, 0>>, <<>>)}

\* placement_to_matrix(placement): [raised, value], raised when a coordinate
\* or a direction ratio is missing
placement_to_matrix(placement) ==
    LET loc == placement.Location
        zaxis == IF placement.Axis # <<>> THEN placement.Axis ELSE <<0, 0, 1>>
        xaxis == IF placement.RefDirection # <<>> THEN placement.RefDirection
                 ELSE <<1, 0, 0>>
        yaxis == <<zaxis[2] * xaxis[3] - zaxis[3] * xaxis[2],
                   zaxis[3] * xaxis[1] - zaxis[1] * xaxis[3],
                   zaxis[1] * xaxis[2] - zaxis[2] * xaxis[1]>>
    IN  IF Len(loc) < 3 \/ Len(zaxis) < 3 \/ Len(xaxis) < 3
        THEN [raised |-> TRUE, value |-> <<>>]
        ELSE [raised |-> FALSE,
              value |-> <<<<xaxis[1], yaxis[1], zaxis[1], loc[1]>>,
                          <<xaxis[2], yaxis[2], zaxis[2], loc[2]>>,
                          <<xaxis[3], yaxis[3], zaxis[3], loc[3]>>,
                          <<0, 0, 0, 1>>>>]

\* M = mm(M, mats[i]) with the product taken the other way round
compose_entity_first(mats) ==
    LET mm(a, b) == [i \in 1..4 |-> [j \in 1..4 |->
                        a[i][1] * b[1][j] + a[i][2] * b[2][j]
                        + a[i][3] * b[3][j] + a[i][4] * b[4][j]]]
        RECURSIVE Down(_, _)
        Down(M, i) == IF i < 1 THEN M ELSE Down(mm(mats[i], M), i - 1)
    IN  Down(mats[Len(mats)], Len(mats) - 1)

\* the loop stopping before mats[0], the link of the element itself
compose_without_own_link(mats) ==
    LET mm(a, b) == [i \in 1..4 |-> [j \in 1..4 |->
                        a[i][1] * b[1][j] + a[i][2] * b[2][j]
                        + a[i][3] * b[3][j] + a[i][4] * b[4][j]]]
        RECURSIVE Down(_, _)
        Down(M, i) == IF i < 2 THEN M ELSE Down(mm(M, mats[i]), i - 1)
    IN  Down(mats[Len(mats)], Len(mats) - 1)

\* M = mats[-1]; for i in range(len(mats)-2, -1, -1): M = mm(M, mats[i])
compose(mats) ==
    LET mm(a, b) == [i \in 1..4 |-> [j \in 1..4 |->
                        a[i][1] * b[1][j] + a[i][2] * b[2][j]
                        + a[i][3] * b[3][j] + a[i][4] * b[4][j]]]
        RECURSIVE Down(_, _)
        Down(M, i) == IF i < 1 THEN M ELSE Down(mm(M, mats[i]), i - 1)
    IN  Down(mats[Len(mats)], Len(mats) - 1)

\* get_element_world_point(el): <<>> for None; every failure in the try
\* block ends in "except Exception: return None"
get_element_world_point(el) ==
    LET pl == el.ObjectPlacement
        mats == [k \in 1..Len(pl) |-> placement_to_matrix(pl[k])]
        M == compose([k \in 1..Len(pl) |-> mats[k].value])
    IN  IF pl = <<>> THEN <<>>
        ELSE IF \E k \in 1..Len(pl) : mats[k].raised THEN <<>>
        ELSE <<M[1][4], M[2][4], M[3][4]>>

\* a student chair with entity id and placement chain
PlacedFurnishing(id, pl) ==
    [is_a |-> "IfcFurnishingElement", id |-> id, Name |-> <<"S", " ", "c">>,
     ObjectType |-> <<>>, types |-> NoType, ObjectPlacement |-> pl]

\* the loop of collect_chairs without "if not pt: continue": pt[0] raises on
\* None
RECURSIVE collect_chairs_no_skip(_)
collect_chairs_no_skip(elems) ==
    IF elems = <<>> THEN [raised |-> FALSE, value |-> <<>>]
    ELSE LET el == Head(elems)
             pt == get_element_world_point(el)
             rest == collect_chairs_no_skip(Tail(elems))
         IN  IF pt = <<>> \/ rest.raised THEN [raised |-> TRUE, value |-> <<>>]
             ELSE [raised |-> FALSE,
                   value |-> <<[ifc_id |-> el.id, name |-> _norm(el.Name),
                                family |-> _norm(el.ObjectType), type_name |-> <<>>,
                                x |-> pt[1], y |-> pt[2], z |-> pt[3]]>>
                             \o rest.value]

\* collect_chairs on the furnishing elements elems: [raised, value]
RECURSIVE collect_chairs(_)
collect_chairs(elems) ==
    IF elems = <<>> THEN [raised |-> FALSE, value |-> <<>>]
    ELSE LET el == Head(elems)
             pt == get_element_world_point(el)
             tname == IF el.types = <<>> THEN <<>>
                      ELSE _norm(IF el.types[1].Name # <<>> THEN el.types[1].Name
                                 ELSE el.types[1].ElementType)
             rest == collect_chairs(Tail(elems))
         IN  IF pt = <<>> THEN rest
             ELSE [raised |-> rest.raised,
                   value |-> <<[ifc_id |-> el.id, name |-> _norm(el.Name),
                                family |-> _norm(el.ObjectType), type_name |-> tname,
                                x |-> pt[1], y |-> pt[2], z |-> pt[3]]>>
                             \o rest.value]

Chains == UNION {[1..n -> LinkPool] : n \in 0..MaxDepth}

\* one classroom over 0..4 x 0..2 at elevation 0, as collect_rooms made it; a
\* furnishing on any chain, alone or followed by one placed at (1, 1, 1)
InitPlacement ==
    /\ pc = "opened"
    /\ rooms = <<[ifc_id |-> 1, longname |-> <<"K">>, name |-> <<"1">>, elev |-> 0,
                  footprint |-> DoubleBay, chairs |-> <<>>]>>
    /\ chairs = <<>>
    /\ \E pl \in Chains :
          \/ ifc = <<PlacedFurnishing(2, pl)>>
          \/ ifc = <<PlacedFurnishing(2, pl),
                     PlacedFurnishing(3, <<Link(<<1, 1, 1>>, <<>>, <<>>)>>)>>
    /\ IdleAgg /\ IdleCanon /\ IdleSession

\* run_classroom_checker from collect_chairs on: the chairs are collected
\* and, unless that raised, assigned to the classrooms
CollectAndAssign ==
    LET got == collect_chairs(by_type(ifc, "IfcFurnishingElement"))
    IN  /\ pc = "opened"
        /\ chairs' = got.value
        /\ rooms' = IF got.raised THEN rooms
                    ELSE assign_chairs_to_rooms(rooms, checker_classroom_rooms(rooms),
                                                classroom_chairs(chairs'),
                                                DEFAULT_Z_TOL_M)
        /\ result' = [raised |-> got.raised]
        /\ pc' = IF got.raised THEN "raised" ELSE "classroom_checker_done"
        /\ UNCHANGED <<label, key, yard_key, edit, ifc, furn_map, built_by,
                       session_state>>

SpecPlacement == InitPlacement /\ [][CollectAndAssign]_vars

\* ---- what the claims say of a placement chain, stated without matrices
Broken(pl) ==
    \/ pl = <<>>
    \/ \E k \in 1..Len(pl) :
          \/ Len(pl[k].Location) < 3
          \/ pl[k].RefDirection # <<>> /\ Len(pl[k].RefDirection) < 3
          \/ pl[k].Axis # <<>> /\ Len(pl[k].Axis) < 3

XOf(l) == IF l.RefDirection = <<>> THEN <<1, 0, 0>> ELSE l.RefDirection

ZOf(l) == IF l.Axis = <<>> THEN <<0, 0, 1>> ELSE l.Axis

Cross(a, b) ==
    <<a[2] * b[3] - a[3] * b[2], a[3] * b[1] - a[1] * b[3],
      a[1] * b[2] - a[2] * b[1]>>

\* the point p of the frame of link k, in world coordinates: each link maps
\* p to origin + p.x X + p.y Y + p.z Z, from link k outwards
RECURSIVE ToWorld(_, _, _)
ToWorld(pl, k, p) ==
    IF k > Len(pl) THEN p
    ELSE LET X == XOf(pl[k])
             Z == ZOf(pl[k])
             Y == Cross(Z, X)
             o == pl[k].Location
         IN  ToWorld(pl, k + 1,
                     [c \in 1..3 |-> o[c] + p[1] * X[c] + p[2] * Y[c] + p[3] * Z[c]])

RECURSIVE SumOfOrigins(_, _)
SumOfOrigins(pl, k) ==
    IF k > Len(pl) THEN <<0, 0, 0>>
    ELSE [c \in 1..3 |-> pl[k].Location[c] + SumOfOrigins(pl, k + 1)[c]]

\* the point collect_chairs recorded for the element with this id
PointsOf(id) ==
    {<<chairs[j].x, chairs[j].y, chairs[j].z>> :
        j \in {j \in 1..Len(chairs) : chairs[j].ifc_id = id}}

InSomeRoom(id) ==
    \E i \in 1..Len(rooms) : \E k \in 1..Len(rooms[i].chairs) :
        rooms[i].chairs[k] = id

\* C22: a furnishing with a missing or broken placement raises nothing, is
\* not extracted as a furnishing point and is in no room's assigned list.
C22_BrokenPlacementExcluded ==
    pc \in {"classroom_checker_done", "raised"} =>
        /\ ~result.raised
        /\ \A i \in 1..Len(ifc) :
              Broken(ifc[i].ObjectPlacement) =>
                  /\ PointsOf(ifc[i].id) = {}
                  /\ ~InSomeRoom(ifc[i].id)

\* a furnishing whose parent placement has a 2D location is left out while
\* the furnishing after it is assigned to the classroom
C22_Witness ==
    /\ pc = "classroom_checker_done"
    /\ Len(ifc) = 2
    /\ Len(ifc[1].ObjectPlacement) = 2
    /\ ifc[1].ObjectPlacement[2].Location = <<1, 1>>
    /\ PointsOf(2) = {}
    /\ InSomeRoom(3)

\* C25: the world point of a furnishing with a sound chain is the origin of
\* its own frame carried through every link from the innermost to the
\* outermost; with default directions throughout it is the sum of the link
\* origins.
C25_WorldPointIsComposition ==
    pc = "classroom_checker_done" =>
        \A i \in 1..Len(ifc) :
            LET pl == ifc[i].ObjectPlacement
            IN  ~Broken(pl) =>
                    /\ PointsOf(ifc[i].id) = {ToWorld(pl, 1, <<0, 0, 0>>)}
                    /\ (\A k \in 1..Len(pl) :
                           pl[k].RefDirection = <<>> /\ pl[k].Axis = <<>>)
                       => PointsOf(ifc[i].id) = {SumOfOrigins(pl, 1)}

\* a furnishing at (1, 1, 1) of a frame turned a quarter about z and moved to
\* (1, 0, 0) is at (0, 1, 1)
C25_Witness ==
    /\ pc = "classroom_checker_done"
    /\ ifc[1].ObjectPlacement
       = <<Link(<<1, 1, 1>>, <<>>, <<>>), Link(<<1, 0, 0>>, <<0, 1, 0>>, <<>>)>>
    /\ PointsOf(2) = {<<0, 1, 1>>}

InsertIdentity(pl, k) ==
    SubSeq(pl, 1, k) \o <<IdentityLink>> \o SubSeq(pl, k + 1, Len(pl))

\* C26: an identity link inserted anywhere in a sound chain leaves the world
\* point as it is, and below identity links only the world point is the
\* origin of the innermost link.
C26_DepthIndependent ==
    pc = "classroom_checker_done" =>
        \A i \in 1..Len(ifc) :
            LET pl == ifc[i].ObjectPlacement
            IN  ~Broken(pl) =>
                    /\ \A k \in 0..Len(pl) :
                          PointsOf(ifc[i].id)
                          = {get_element_world_point(
                                [ifc[i] EXCEPT !.ObjectPlacement = InsertIdentity(pl, k)])}
                    /\ (\A k \in 2..Len(pl) : pl[k] = IdentityLink)
                       => PointsOf(ifc[i].id) = {pl[1].Location}

\* a furnishing at (1, 1, 1) below two identity links
C26_Witness ==
    /\ pc = "classroom_checker_done"
    /\ ifc[1].ObjectPlacement
       = <<Link(<<1, 1, 1>>, <<>>, <<>>), IdentityLink, IdentityLink>>
    /\ PointsOf(2) = {<<1, 1, 1>>}

\* ------------------------------------------------------------ footprints
\* a shape is the mesh ifcgeom.create_shape returns: verts, a sequence of
\* <<x, y, z>>, and faces, a sequence of triples of vertex indices (from 1).
\* The triangles of the meshes below coincide or have disjoint interiors, so
\* the area of their union is the sum of the areas of the distinct ones.
MaxFaces == 3

\* Polygon([a, b, c]).area for plan points a, b, c
tri_area(a, b, c) ==
    abs((b[1] - a[1]) * (c[2] - a[2]) - (c[1] - a[1]) * (b[2] - a[2])) \div 2

\* the loop over faces: the triangles in plan that are valid and have
\* positive area; a face naming a missing vertex is skipped
surviving_triangles(shape) ==
    LET xy(i) == <<shape.verts[i][1], shape.verts[i][2]>>
        ok(f) == /\ \A c \in 1..3 : f[c] \in 1..Len(shape.verts)
                 /\ tri_area(xy(f[1]), xy(f[2]), xy(f[3])) > 0
        kept == SelectSeq(shape.faces, LAMBDA f : ok(f))
    IN  [k \in 1..Len(kept) |-> <<xy(kept[k][1]), xy(kept[k][2]), xy(kept[k][3])>>]

\* zs of the vertices that belong to a surviving triangle only
zs_of_surviving(shape) ==
    LET ok(f) == /\ \A c \in 1..3 : f[c] \in 1..Len(shape.verts)
                 /\ tri_area(shape.verts[f[1]], shape.verts[f[2]],
                             shape.verts[f[3]]) > 0
    IN  {shape.verts[f[c]][3] :
            f \in {shape.faces[k] : k \in {k \in 1..Len(shape.faces) :
                                             ok(shape.faces[k])}},
            c \in 1..3}

\* zs = verts[2::3]
mesh_zs(shape) == {shape.verts[i][3] : i \in 1..Len(shape.verts)}

\* unary_union(polys): the region as the set of its distinct triangles, each
\* the set of its corners
unary_union(polys) ==
    {{polys[k][1], polys[k][2], polys[k][3]} : k \in 1..Len(polys)}

\* Polygon(pts).convex_hull.area: half the sum of p x q over the edges p -> q
\* of the hull, the pairs with every point to the left of or on the segment
convex_hull_area(pts) ==
    LET cross(p, q, r) ==
            (q[1] - p[1]) * (r[2] - p[2]) - (r[1] - p[1]) * (q[2] - p[2])
        between(p, q, r) ==
            /\ (r[1] - p[1]) * (r[1] - q[1]) <= 0
            /\ (r[2] - p[2]) * (r[2] - q[2]) <= 0
        edges == {e \in pts \X pts :
                     /\ e[1] # e[2]
                     /\ \A r \in pts :
                           \/ cross(e[1], e[2], r) > 0
                           \/ cross(e[1], e[2], r) = 0 /\ between(e[1], e[2], r)}
        RECURSIVE Sum(_)
        Sum(es) ==
            IF es = {} THEN 0
            ELSE LET e == CHOOSE e \in es : TRUE
                 IN  e[1][1] * e[2][2] - e[2][1] * e[1][2] + Sum(es \ {e})
    IN  abs(Sum(edges)) \div 2

\* build_space_footprint(space, settings): [raised, value], value <<>> for
\* None; union_fails says whether unary_union raises on these triangles
build_space_footprint(space, union_fails) ==
    LET shape == space.shape
        zs == mesh_zs(shape)
        zmin == CHOOSE z \in zs : \A w \in zs : z <= w
        zmax == CHOOSE z \in zs : \A w \in zs : z >= w
        polys == surviving_triangles(shape)
    IN  IF shape.verts = <<>> THEN [raised |-> FALSE, value |-> <<>>]
        ELSE IF polys = <<>> THEN [raised |-> FALSE, value |-> <<>>]
        ELSE IF union_fails THEN [raised |-> TRUE, value |-> <<>>]
        ELSE [raised |-> FALSE,
              value |-> <<[footprint |-> unary_union(polys), zmin |-> zmin,
                           zmax |-> zmax, elev |-> zmin]>>]

\* area_from_shape_mesh(shape): the area of the union, the sum over its
\* distinct triangles, or of the convex hull when unary_union raises
area_from_shape_mesh(shape, union_fails) ==
    LET tris == surviving_triangles(shape)
        pts == UNION {{tris[k][1], tris[k][2], tris[k][3]} : k \in 1..Len(tris)}
        RECURSIVE Sum(_)
        Sum(ts) ==
            IF ts = {} THEN 0
            ELSE LET t == CHOOSE t \in ts : TRUE
                     a == CHOOSE a \in t : TRUE
                     b == CHOOSE b \in t \ {a} : TRUE
                     c == CHOOSE c \in t \ {a, b} : TRUE
                 IN  tri_area(a, b, c) + Sum(ts \ {t})
    IN  IF shape.verts = <<>> THEN 0
        ELSE IF tris = <<>> THEN 0
        ELSE IF union_fails THEN convex_hull_area(pts)
        ELSE Sum(unary_union(tris))

\* one IfcSpace whose mesh is empty or has up to MaxFaces faces on the corners
\* of a room over 0..2 x 0..2, floor at z = 0 and ceiling at z = 3: two floor
\* triangles, two ceiling triangles, a wall triangle (a segment in plan) and a
\* triangle naming a vertex the mesh does not have
InitFootprint ==
    LET BoxVerts ==
            <<<<0, 0, 0>>, <<2, 0, 0>>, <<2, 2, 0>>, <<0, 2, 0>>,
              <<0, 0, 3>>, <<2, 0, 3>>, <<2, 2, 3>>, <<0, 2, 3>>>>
        FacePool ==
            {<<1, 2, 3>>, <<1, 3, 4>>, <<5, 6, 7>>, <<5, 7, 8>>,
             <<1, 2, 6>>, <<1, 2, 9>>}
        Shapes ==
            {[verts |-> <<>>, faces |-> <<>>]}
            \cup {[verts |-> BoxVerts, faces |-> fs] :
                     fs \in UNION {[1..n -> FacePool] : n \in 0..MaxFaces}}
    IN  /\ pc = "opened"
        /\ \E shape \in Shapes :
               ifc = <<[is_a |-> "IfcSpace", LongName |-> <<"K">>,
                        Name |-> <<"1">>, shape |-> shape]>>
        /\ IdleAgg /\ IdleCanon /\ IdleAssign /\ IdleSession

\* collect_rooms on the space of the model: build_space_footprint is called
\* outside any try block
BuildSpaceFootprint ==
    \E union_fails \in BOOLEAN :
        LET built == build_space_footprint(ifc[1], union_fails)
        IN  /\ pc = "opened"
            /\ result' = [by |-> "build_space_footprint",
                          union_failed |-> union_fails /\ surviving_triangles(ifc[1].shape) # <<>>,
                          raised |-> built.raised, built |-> built.value]
            /\ pc' = IF built.raised THEN "raised" ELSE "built"
            /\ UNCHANGED <<session_state, othersApc>>

\* the call a_model = area_from_shape_mesh(shape) of
\* total_area_for_standard_key, on the mesh of the space of the model
AreaFromShapeMesh ==
    \E union_fails \in BOOLEAN :
        /\ pc = "opened"
        /\ result' = [by |-> "area_from_shape_mesh",
                      union_failed |-> union_fails /\ surviving_triangles(ifc[1].shape) # <<>>,
                      raised |-> FALSE,
                      area |-> area_from_shape_mesh(ifc[1].shape, union_fails)]
        /\ pc' = "measured"
        /\ UNCHANGED <<session_state, othersApc>>

NextFootprint == BuildSpaceFootprint \/ AreaFromShapeMesh

SpecFootprint == InitFootprint /\ [][NextFootprint]_vars

\* the triangles of the mesh survive and unary_union raised on them
UnionFailed == pc # "opened" /\ result.union_failed

\* C23: a failure of the planar union is never fatal: build_space_footprint
\* still returns a footprint and area_from_shape_mesh returns the area of the
\* convex hull of the triangles' corners.
C23_UnionFailureNotFatal ==
    UnionFailed =>
        /\ ~result.raised
        /\ result.by = "build_space_footprint" => result.built # <<>>
        /\ result.by = "area_from_shape_mesh" =>
               LET tris == surviving_triangles(ifc[1].shape)
               IN  result.area = convex_hull_area(
                       UNION {{tris[k][1], tris[k][2], tris[k][3]} :
                                 k \in 1..Len(tris)})

\* the z of every vertex of the mesh of the space, used by a face or not
AllVertexZ == {ifc[1].shape.verts[i][3] : i \in 1..Len(ifc[1].shape.verts)}

\* C28: the elevation minimum and maximum of a footprint are the least and
\* the greatest z over all vertices of the mesh, those used only by discarded
\* triangles included, and the reference elevation is the minimum.
C28_ElevationsOverAllVertices ==
    pc = "built" /\ result.built # <<>> =>
        LET b == result.built[1]
        IN  /\ b.zmin \in AllVertexZ /\ \A z \in AllVertexZ : b.zmin <= z
            /\ b.zmax \in AllVertexZ /\ \A z \in AllVertexZ : z <= b.zmax
            /\ b.elev = b.zmin

\* a footprint whose maximum comes from a vertex that no surviving triangle
\* uses
C28_Witness ==
    /\ pc = "built" /\ result.built # <<>>
    /\ result.built[1].zmax \notin zs_of_surviving(ifc[1].shape)
    /\ \E k \in 1..Len(ifc[1].shape.faces) :
           \E c \in 1..3 :
               /\ ifc[1].shape.faces[k][c] \in 1..Len(ifc[1].shape.verts)
               /\ ifc[1].shape.verts[ifc[1].shape.faces[k][c]][3]
                      = result.built[1].zmax

====
